---------------------------- MODULE Spec2Model ----------------------------
(***************************************************************************)
(* HALO-UTILS: the JSON-array file store (IOF.writeJSONFile,               *)
(* IOF.readJSONFile) and the structured logger (class Logger).             *)
(*                                                                         *)
(* JavaScript values are tagged records, one field layout per type.  A     *)
(* file's text is a sequence of lexical tokens; JSON.stringify and         *)
(* JSON.parse are the two conversions between values and token sequences.  *)
(***************************************************************************)
EXTENDS Integers, Sequences, FiniteSets, TLC

\* ------------------------------------------------------------------ bounds

\* Longest array a caller passes as `data`.
MaxData == 2
\* Longest array the store file is allowed to grow to (appends beyond it are
\* not issued).
MaxEntries == 3
\* Most arguments a logger call is given.
MaxArgs == 2
\* Deepest nesting of application functions a logger call is made from.
MaxFrames == 2
\* Longest buffer handed to the hash and size functions, in bytes.
MaxBytes == 2
\* Most Terminal objects constructed in a process.
MaxTerminals == 3
\* Most variables the application itself puts into process.env.
MaxEnv == 2
\* How many filesystem events the watcher is followed for.
MaxEvents == 4

\* ------------------------------------------------------------- JS values

Null == [t |-> "null"]

Bool(b) == [t |-> "bool", b |-> b]

Num(n) == [t |-> "num", n |-> n]

Str(s) == [t |-> "str", s |-> s]

Arr(items) == [t |-> "arr", items |-> items]

\* An object: its own enumerable fields in insertion order.
Obj(fields) == [t |-> "obj", fields |-> fields]

Field(k, v) == [k |-> k, v |-> v]

\* Array.isArray
IsArray(v) == v.t = "arr"

\* ------------------------------------------------------------ JSON text

\* Token spellings.  NL stands for a line break plus its indentation, SP for
\* the blank JSON.stringify puts after a colon when an indent is given.
Q == "\""

NL == "\n"

SP == " "

Whitespace == {NL, SP}

Digits == <<"0", "1", "2", "3", "4", "5", "6", "7", "8", "9">>

NumLits == {Digits[i] : i \in 1..Len(Digits)}

NumOfLit(tok) == (CHOOSE i \in 1..Len(Digits) : Digits[i] = tok) - 1

Structural == {"[", "]", "{", "}", ",", ":", Q}

RECURSIVE Stringify(_, _)
RECURSIVE StringifyElements(_, _, _)
RECURSIVE StringifyMembers(_, _, _)

\* The elements of a non-empty array from index i on; with an indent each
\* goes on its own line.
StringifyElements(items, i, pretty) ==
    IF i > Len(items) THEN <<>>
    ELSE (IF pretty THEN <<NL>> ELSE <<>>) \o Stringify(items[i], pretty)
            \o (IF i < Len(items) THEN <<",">> ELSE <<>>)
            \o StringifyElements(items, i + 1, pretty)

StringifyMembers(fields, i, pretty) ==
    IF i > Len(fields) THEN <<>>
    ELSE (IF pretty THEN <<NL>> ELSE <<>>) \o <<Q, fields[i].k, Q, ":">>
            \o (IF pretty THEN <<SP>> ELSE <<>>) \o Stringify(fields[i].v, pretty)
            \o (IF i < Len(fields) THEN <<",">> ELSE <<>>)
            \o StringifyMembers(fields, i + 1, pretty)

\* JSON.stringify of a JSON-representable value, with or without an indent.
Stringify(v, pretty) ==
    CASE v.t = "null" -> <<"null">>
      [] v.t = "bool" -> <<IF v.b THEN "true" ELSE "false">>
      [] v.t = "num"  -> <<Digits[v.n + 1]>>
      [] v.t = "str"  -> <<Q, v.s, Q>>
      [] v.t = "arr"  -> IF v.items = <<>> THEN <<"[", "]">>
                         ELSE <<"[">> \o StringifyElements(v.items, 1, pretty)
                                \o (IF pretty THEN <<NL>> ELSE <<>>) \o <<"]">>
      [] v.t = "obj"  -> IF v.fields = <<>> THEN <<"{", "}">>
                         ELSE <<"{">> \o StringifyMembers(v.fields, 1, pretty)
                                \o (IF pretty THEN <<NL>> ELSE <<>>) \o <<"}">>

\* JSON.stringify(v, null, 2)
JSONstringify(v) == Stringify(v, TRUE)

\* JSON.stringify(v)
JSONstringifyCompact(v) == Stringify(v, FALSE)

ParseFail == [ok |-> FALSE]

ParseOk(v, next) == [ok |-> TRUE, val |-> v, next |-> next]

RECURSIVE SkipWS(_, _)
SkipWS(toks, i) ==
    IF i <= Len(toks) /\ toks[i] \in Whitespace THEN SkipWS(toks, i + 1) ELSE i

RECURSIVE ParseValue(_, _)
RECURSIVE ParseElements(_, _, _)
RECURSIVE ParseMembers(_, _, _)

\* value (, value)* ]     with i at the first token of a value
ParseElements(toks, i, acc) ==
    LET r == ParseValue(toks, i) IN
    IF ~r.ok THEN ParseFail
    ELSE LET k == SkipWS(toks, r.next) IN
         IF k > Len(toks) THEN ParseFail
         ELSE IF toks[k] = "," THEN ParseElements(toks, k + 1, Append(acc, r.val))
         ELSE IF toks[k] = "]" THEN ParseOk(Arr(Append(acc, r.val)), k + 1)
         ELSE ParseFail

\* "key" : value (, "key" : value)* }
ParseMembers(toks, i, acc) ==
    LET j == SkipWS(toks, i) IN
    IF j + 2 > Len(toks) \/ toks[j] # Q \/ toks[j + 2] # Q
          \/ toks[j + 1] \in Structural
    THEN ParseFail
    ELSE LET c == SkipWS(toks, j + 3) IN
         IF c > Len(toks) \/ toks[c] # ":" THEN ParseFail
         ELSE LET r == ParseValue(toks, c + 1) IN
              IF ~r.ok THEN ParseFail
              ELSE LET k == SkipWS(toks, r.next)
                       fs == Append(acc, Field(toks[j + 1], r.val)) IN
                   IF k > Len(toks) THEN ParseFail
                   ELSE IF toks[k] = "," THEN ParseMembers(toks, k + 1, fs)
                   ELSE IF toks[k] = "}" THEN ParseOk(Obj(fs), k + 1)
                   ELSE ParseFail

ParseValue(toks, i) ==
    LET j == SkipWS(toks, i) IN
    IF j > Len(toks) THEN ParseFail
    ELSE CASE toks[j] = "null"  -> ParseOk(Null, j + 1)
           [] toks[j] = "true"  -> ParseOk(Bool(TRUE), j + 1)
           [] toks[j] = "false" -> ParseOk(Bool(FALSE), j + 1)
           [] toks[j] \in NumLits -> ParseOk(Num(NumOfLit(toks[j])), j + 1)
           [] toks[j] = Q ->
                IF j + 2 <= Len(toks) /\ toks[j + 2] = Q
                      /\ toks[j + 1] \notin Structural
                THEN ParseOk(Str(toks[j + 1]), j + 3)
                ELSE ParseFail
           [] toks[j] = "[" ->
                LET k == SkipWS(toks, j + 1) IN
                IF k <= Len(toks) /\ toks[k] = "]"
                THEN ParseOk(Arr(<<>>), k + 1)
                ELSE ParseElements(toks, k, <<>>)
           [] toks[j] = "{" ->
                LET k == SkipWS(toks, j + 1) IN
                IF k <= Len(toks) /\ toks[k] = "}"
                THEN ParseOk(Obj(<<>>), k + 1)
                ELSE ParseMembers(toks, k, <<>>)
           [] OTHER -> ParseFail

\* JSON.parse(text): [ok |-> TRUE, val |-> v], or [ok |-> FALSE] for the
\* SyntaxError it throws.  The whole text has to be one value.
JSONparse(toks) ==
    LET r == ParseValue(toks, 1) IN
    IF r.ok /\ SkipWS(toks, r.next) = Len(toks) + 1
    THEN [ok |-> TRUE, val |-> r.val]
    ELSE [ok |-> FALSE]

\* ---------------------------------------------------------------- errors

\* A thrown value: every one here is an Error instance; `message` is its text
\* as a sequence of pieces (template-literal parts in order).
Err(name, message) == [name |-> name, message |-> message]

NoError == [name |-> "none"]

\* Faults of the platform calls, by the call that raises them.
MkdirFault(dirPath) ==
    Err("Error", <<"EACCES: permission denied, mkdir '", dirPath, "'">>)

ReadFault(filePath) ==
    Err("Error", <<"EIO: i/o error, read '", filePath, "'">>)

WriteFault(filePath) ==
    Err("Error", <<"ENOSPC: no space left on device, write '", filePath, "'">>)

ParseFault == Err("SyntaxError", <<"Unexpected token in JSON">>)

\* ------------------------------------------------------------ the store

\* The one store path of the model and path.dirname of it.
FilePath == "data/store.json"

DirName(filePath) == "data"

Procs == {1, 2}

ObjA1 == Obj(<<Field("a", Num(1))>>)

ObjA2 == Obj(<<Field("a", Num(2))>>)

ObjX1 == Obj(<<Field("x", Num(1))>>)

ObjY2 == Obj(<<Field("y", Num(2))>>)

\* The records callers store.
Items == {ObjA1, ObjA2, ObjY2}

SeqsUpTo(S, n) == UNION {[1..k -> S] : k \in 0..n}

\* `data: T | T[]`: one record, or an array of records.
DataInputs == Items \cup {Arr(q) : q \in SeqsUpTo(Items, MaxData)}

\* What the two overlapping callers pass.
RaceInputs == {ObjA1, ObjA2}

NoFile == [exists |-> FALSE]

FileOf(text) == [exists |-> TRUE, text |-> text]

\* What may lie at the store path before the program first touches it: an
\* array file written compactly, a JSON object, text that is not JSON.
InitialFiles ==
    { FileOf(<<"[", "]">>),
      FileOf(<<"[", "{", Q, "a", Q, ":", "1", "}", "]">>),
      FileOf(<<"{", Q, "x", Q, ":", "1", "}">>),
      FileOf(<<"[", "{", Q, "a", Q, ":", "1", "}", ",">>) }

VARIABLES
    dirExists,   \* the parent directory of the store path exists
    file,        \* the file at the store path
    pc,          \* per caller: where its pending call is suspended
    call,        \* per caller: the pending call's parameters and locals
    result,      \* how the latest step settled a call, if it settled one
    hist,        \* the entries written by the overwrite-then-append run so far
    showFunctionName,   \* Logger.showFunctionName
    frames,             \* the application functions being executed, innermost first
    logged,             \* the logger call just made and its outcome, until the
                        \* caller goes on
    util,               \* the utility call just made and its outcome
    terminals,          \* the Terminal objects constructed, each with its readline interface
    instance,           \* Terminal.instance
    env,                \* process.env
    disk,               \* the directory and the file the file operations work on
    watch               \* the directory watcher: events and handler invocations

storeVars == <<dirExists, file, pc, call, result, hist>>

loggerVars == <<showFunctionName, frames, logged>>

utilVars == <<util, terminals, instance, env>>

ioVars == <<disk, watch>>

NoCall == [op |-> "none"]

NoResult == [op |-> "none"]

NoHist == [valid |-> FALSE, items |-> <<>>]

\* NormalizeData passing the data on as it is, a single record unwrapped.
NormalizeDataKeepsScalar(data) == data

\* NormalizeData wrapping whatever it is given, an array included.
NormalizeDataAlwaysWraps(data) == Arr(<<data>>)

\* line 811: finalData = Array.isArray(data) ? data : [data]
NormalizeData(data) == IF IsArray(data) THEN data ELSE Arr(<<data>>)

\* ExistingArray keeping a root that is no array as the one existing entry.
ExistingArrayWraps(parsed) == IF IsArray(parsed) THEN parsed ELSE Arr(<<parsed>>)

\* line 815: if (!Array.isArray(arrayData)) arrayData = []
ExistingArray(parsed) == IF IsArray(parsed) THEN parsed ELSE Arr(<<>>)

\* AppendData putting the new entries first.
AppendDataPrepends(arrayData, data) ==
    IF IsArray(data) THEN Arr(data.items \o arrayData.items)
    ELSE Arr(<<data>> \o arrayData.items)

\* AppendData spreading the data alone.
AppendDataDropsExisting(arrayData, data) ==
    IF IsArray(data) THEN data ELSE Arr(<<data>>)

\* lines 816-820: [...arrayData, ...data] or [...arrayData, data]
AppendData(arrayData, data) ==
    IF IsArray(data) THEN Arr(arrayData.items \o data.items)
    ELSE Arr(Append(arrayData.items, data))

\* line 755: the error IOF.mkdir throws for a fault of mkdirSync
MkdirError(dirPath, error) ==
    Err("Error", <<"Failed to create directory at ", dirPath, ":  ">> \o error.message)

\* WriteJSONError without the cause's message.
WriteJSONErrorDropsCause(filePath, error) ==
    Err("Error", <<"Failed to write JSON to ", filePath>>)

\* line 825: the one error writeJSONFile rejects with
WriteJSONError(filePath, error) ==
    Err("Error", <<"Failed to write JSON to ", filePath, ": ">> \o error.message)

\* line 846: the one error readJSONFile rejects with
ReadJSONError(filePath, error) ==
    Err("Error", <<"Failed to read JSON from ", filePath, ": ">> \o error.message)

\* line 837
NotFoundError(filePath) == Err("Error", <<"File not found: ", filePath>>)

\* line 842
NotArrayError(filePath) == Err("Error", <<"File content is not an array: ", filePath>>)

NoValue == [t |-> "undefined"]

\* The locals of a writeJSONFile call that has passed its synchronous part.
\* `existed` is what existsFileSync(filePath) answered at line 810; `overlap`
\* and `staleBy` only observe the call: whether another writeJSONFile call
\* was pending during it, and what another call wrote after this one read;
\* `dirMissing` is what existsFileSync(path.dirname(filePath)) answered at
\* line 806, negated.
WriteLocals(data, overwrite, existed, overlap) ==
    [op |-> "write", data |-> data, overwrite |-> overwrite, existed |-> existed,
     didRead |-> FALSE, readText |-> <<>>, newJsonData |-> <<>>,
     overlap |-> overlap, staleBy |-> NoValue, dirMissing |-> ~dirExists]

\* How a writeJSONFile call settled: resolved ("ok") or rejected ("error")
\* with `error`; `cause` is the error caught at line 824, `fault` the
\* platform fault under it, `before` the file as the settling step found it.
WriteResult(c, status, error, cause, fault) ==
    [op |-> "write", status |-> status, before |-> file,
     data |-> c.data, overwrite |-> c.overwrite,
     existed |-> c.existed, didRead |-> c.didRead, readText |-> c.readText,
     overlap |-> c.overlap, staleBy |-> c.staleBy, dirMissing |-> c.dirMissing,
     error |-> error, cause |-> cause, fault |-> fault]

\* How a readJSONFile call settled; `seen` is the run of writes it followed.
ReadResult(status, existed, didRead, readText, value, error, cause, seen) ==
    [op |-> "read", status |-> status, existed |-> existed, didRead |-> didRead,
     readText |-> readText, value |-> value, error |-> error, cause |-> cause,
     seen |-> seen]

\* The entries a caller hands over, as the observers count them.
ItemsOf(data) == IF data.t = "arr" THEN data.items ELSE <<data>>

PendingWrites(p) == {q \in Procs \ {p} : call[q].op = "write"}

ArrayLen(text) ==
    LET r == JSONparse(text) IN
    IF r.ok /\ IsArray(r.val) THEN Len(r.val.items) ELSE 0

FileLen == IF file.exists THEN ArrayLen(file.text) ELSE 0

Max(a, b) == IF a >= b THEN a ELSE b

RECURSIVE LongestFinal(_)
RECURSIVE SumUnread(_)

\* The longest array a pending call is about to write.
LongestFinal(S) ==
    IF S = {} THEN 0
    ELSE LET q == CHOOSE x \in S : TRUE IN
         Max(IF pc[q] = "w_write" THEN ArrayLen(call[q].newJsonData) ELSE 0,
             LongestFinal(S \ {q}))

\* The entries the pending calls that have yet to read will add.
SumUnread(S) ==
    IF S = {} THEN 0
    ELSE LET q == CHOOSE x \in S : TRUE IN
         (IF pc[q] = "w_read" THEN Len(ItemsOf(call[q].data)) ELSE 0)
            + SumUnread(S \ {q})

\* Calls are issued only while the file stays within MaxEntries entries,
\* whatever order the pending calls settle in.
WithinBound(p, data, overwrite) ==
    (IF overwrite THEN 0 ELSE Max(FileLen, LongestFinal(PendingWrites(p))))
        + SumUnread(PendingWrites(p))
        + Len(ItemsOf(data)) <= MaxEntries

\* The run of entries after a write call settled: an overwrite that
\* overlapped no other write call starts a run, such an append extends it,
\* anything else ends it.
HistAfter(c, ok) ==
    IF ~ok \/ c.overlap THEN NoHist
    ELSE IF c.overwrite THEN [valid |-> TRUE, items |-> ItemsOf(c.data)]
    ELSE IF hist.valid
         THEN [valid |-> TRUE, items |-> hist.items \o ItemsOf(c.data)]
         ELSE NoHist

\* StartsFresh for a missing file only: overwrite reads the file like an append.
StartsFreshOnlyWhenMissing(overwrite, exists) == ~exists

\* line 810: overwrite || !this.existsFileSync(filePath), the condition
\* under which the existing file is neither read nor parsed.
StartsFresh(overwrite, exists) == overwrite \/ ~exists

\* EnsureDir leaving a missing directory missing.
EnsureDirSkipsMkdir(exists) == exists

\* lines 806-808, mkdir having succeeded: the parent directory exists, made
\* by mkdirSync with recursive: true if it did not.
EnsureDir(exists) == TRUE

\* writeJSONFile, lines 804-811 and 822: from the call to the first await.
\* The directory is created when absent; with overwrite, or with no file at
\* the path, the final data is the normalized data and the write is started;
\* otherwise the read of the existing file is started.
WriteCall(p, data, overwrite) ==
    /\ pc[p] = "idle"
    /\ WithinBound(p, data, overwrite)
    /\ \E mkdirFails \in (IF dirExists THEN {FALSE} ELSE BOOLEAN) :
         LET dir == DirName(FilePath)
             c == WriteLocals(data, overwrite, file.exists, PendingWrites(p) # {})
         IN IF mkdirFails
            THEN /\ result' = WriteResult(c, "error",
                                  WriteJSONError(FilePath, MkdirError(dir, MkdirFault(dir))),
                                  MkdirError(dir, MkdirFault(dir)), MkdirFault(dir))
                 /\ hist' = NoHist
                 /\ UNCHANGED <<dirExists, file, pc, call>>
            ELSE /\ dirExists' = EnsureDir(dirExists)
                 /\ call' = [q \in Procs |->
                               IF q = p
                               THEN IF StartsFresh(overwrite, file.exists)
                                    THEN [c EXCEPT !.newJsonData =
                                             JSONstringify(NormalizeData(data))]
                                    ELSE c
                               ELSE IF call[q].op = "write"
                                    THEN [call[q] EXCEPT !.overlap = TRUE]
                                    ELSE call[q]]
                 /\ pc' = [pc EXCEPT ![p] =
                             IF StartsFresh(overwrite, file.exists)
                             THEN "w_write" ELSE "w_read"]
                 /\ result' = NoResult
                 /\ UNCHANGED <<file, hist>>
    /\ UNCHANGED loggerVars
    /\ UNCHANGED utilVars
    /\ UNCHANGED ioVars

\* WriteAfterRead that, when the text does not parse, stores the new data
\* in place of it before it rejects.
WriteAfterReadReplacesUnparseable(p) ==
    /\ pc[p] = "w_read"
    /\ \E readFails \in BOOLEAN :
         LET c == call[p]
             parsed == JSONparse(file.text)
             cr == [c EXCEPT !.didRead = TRUE, !.readText = file.text]
         IN IF readFails
            THEN /\ result' = WriteResult(c, "error",
                                  WriteJSONError(FilePath, ReadFault(FilePath)),
                                  ReadFault(FilePath), ReadFault(FilePath))
                 /\ hist' = NoHist
                 /\ pc' = [pc EXCEPT ![p] = "idle"]
                 /\ call' = [call EXCEPT ![p] = NoCall]
                 /\ UNCHANGED <<dirExists, file>>
            ELSE IF ~parsed.ok
            THEN /\ result' = WriteResult(cr, "error",
                                  WriteJSONError(FilePath, ParseFault),
                                  ParseFault, ParseFault)
                 /\ hist' = NoHist
                 /\ pc' = [pc EXCEPT ![p] = "idle"]
                 /\ call' = [call EXCEPT ![p] = NoCall]
                 /\ file' = FileOf(JSONstringify(NormalizeData(c.data)))
                 /\ UNCHANGED dirExists
            ELSE /\ call' = [call EXCEPT ![p] =
                               [cr EXCEPT !.newJsonData =
                                   JSONstringify(AppendData(ExistingArray(parsed.val),
                                                            c.data))]]
                 /\ pc' = [pc EXCEPT ![p] = "w_write"]
                 /\ result' = NoResult
                 /\ UNCHANGED <<dirExists, file, hist>>
    /\ UNCHANGED loggerVars
    /\ UNCHANGED utilVars
    /\ UNCHANGED ioVars

\* writeJSONFile, lines 813-822: readFile settles; the text is parsed, a
\* root that is no array counts as empty, the data is appended, the write
\* is started.
WriteAfterRead(p) ==
    /\ pc[p] = "w_read"
    /\ \E readFails \in BOOLEAN :
         LET c == call[p]
             parsed == JSONparse(file.text)
             cr == [c EXCEPT !.didRead = TRUE, !.readText = file.text]
         IN IF readFails
            THEN /\ result' = WriteResult(c, "error",
                                  WriteJSONError(FilePath, ReadFault(FilePath)),
                                  ReadFault(FilePath), ReadFault(FilePath))
                 /\ hist' = NoHist
                 /\ pc' = [pc EXCEPT ![p] = "idle"]
                 /\ call' = [call EXCEPT ![p] = NoCall]
                 /\ UNCHANGED <<dirExists, file>>
            ELSE IF ~parsed.ok
            THEN /\ result' = WriteResult(cr, "error",
                                  WriteJSONError(FilePath, ParseFault),
                                  ParseFault, ParseFault)
                 /\ hist' = NoHist
                 /\ pc' = [pc EXCEPT ![p] = "idle"]
                 /\ call' = [call EXCEPT ![p] = NoCall]
                 /\ UNCHANGED <<dirExists, file>>
            ELSE /\ call' = [call EXCEPT ![p] =
                               [cr EXCEPT !.newJsonData =
                                   JSONstringify(AppendData(ExistingArray(parsed.val),
                                                            c.data))]]
                 /\ pc' = [pc EXCEPT ![p] = "w_write"]
                 /\ result' = NoResult
                 /\ UNCHANGED <<dirExists, file, hist>>
    /\ UNCHANGED loggerVars
    /\ UNCHANGED utilVars
    /\ UNCHANGED ioVars

\* WriteDone writing the entries of the file as it is now, followed by the
\* data, instead of the text prepared when the call read.
WriteDoneMerging(p) ==
    /\ pc[p] = "w_write"
    /\ LET c == call[p]
           now == JSONparse(file.text)
           text == IF c.didRead /\ now.ok
                   THEN JSONstringify(AppendData(ExistingArray(now.val), c.data))
                   ELSE c.newJsonData
       IN /\ file' = FileOf(text)
          /\ result' = WriteResult(c, "ok", NoError, NoError, NoError)
          /\ hist' = HistAfter(c, TRUE)
          /\ pc' = [pc EXCEPT ![p] = "idle"]
          /\ call' = [q \in Procs |->
                        IF q = p THEN NoCall
                        ELSE IF call[q].op = "write" /\ call[q].didRead
                             THEN [call[q] EXCEPT !.staleBy = Arr(ItemsOf(c.data))]
                             ELSE call[q]]
          /\ UNCHANGED dirExists
    /\ UNCHANGED loggerVars
    /\ UNCHANGED utilVars
    /\ UNCHANGED ioVars

\* What a failed writeFile leaves at the path: the file as it was, or the
\* file opened and truncated with nothing written.
AfterFailedWrite == {file, FileOf(<<>>)}

\* writeJSONFile, lines 823-826: writeFile settles.
WriteDone(p) ==
    /\ pc[p] = "w_write"
    /\ \E writeFails \in BOOLEAN :
         LET c == call[p] IN
         /\ IF writeFails
            THEN /\ file' \in AfterFailedWrite
                 /\ result' = WriteResult(c, "error",
                                  WriteJSONError(FilePath, WriteFault(FilePath)),
                                  WriteFault(FilePath), WriteFault(FilePath))
            ELSE /\ file' = FileOf(c.newJsonData)
                 /\ result' = WriteResult(c, "ok", NoError, NoError, NoError)
         /\ hist' = HistAfter(c, ~writeFails)
         /\ pc' = [pc EXCEPT ![p] = "idle"]
         /\ call' = [q \in Procs |->
                       IF q = p THEN NoCall
                       ELSE IF ~writeFails /\ call[q].op = "write" /\ call[q].didRead
                            THEN [call[q] EXCEPT !.staleBy = Arr(ItemsOf(c.data))]
                            ELSE call[q]]
         /\ UNCHANGED dirExists
    /\ UNCHANGED loggerVars
    /\ UNCHANGED utilVars
    /\ UNCHANGED ioVars

\* ReadOutcome as lenient as the append path: a root that is no array reads
\* as the empty array.
ReadOutcomeLenient(filePath, text, seen) ==
    LET parsed == JSONparse(text) IN
    IF ~parsed.ok
    THEN ReadResult("error", TRUE, TRUE, text, NoValue,
                    ReadJSONError(filePath, ParseFault), ParseFault, seen)
    ELSE ReadResult("ok", TRUE, TRUE, text,
                    IF IsArray(parsed.val) THEN parsed.val ELSE Arr(<<>>),
                    NoError, NoError, seen)

\* readJSONFile, lines 839-847: what the call settles with once the text
\* has been read.
ReadOutcome(filePath, text, seen) ==
    LET parsed == JSONparse(text) IN
    IF ~parsed.ok
    THEN ReadResult("error", TRUE, TRUE, text, NoValue,
                    ReadJSONError(filePath, ParseFault), ParseFault, seen)
    ELSE IF ~IsArray(parsed.val)
    THEN ReadResult("error", TRUE, TRUE, text, NoValue,
                    ReadJSONError(filePath, NotArrayError(filePath)),
                    NotArrayError(filePath), seen)
    ELSE ReadResult("ok", TRUE, TRUE, text, parsed.val, NoError, NoError, seen)

\* ReadCall answering a missing file with the empty array and creating it.
ReadCallCreates(p) ==
    /\ pc[p] = "idle"
    /\ IF ~file.exists
       THEN /\ result' = ReadResult("ok", FALSE, FALSE, <<>>, Arr(<<>>),
                                    NoError, NoError, hist)
            /\ file' = FileOf(<<"[", "]">>)
            /\ UNCHANGED <<pc, call>>
       ELSE /\ pc' = [pc EXCEPT ![p] = "r_read"]
            /\ call' = [call EXCEPT ![p] = [op |-> "read"]]
            /\ result' = NoResult
            /\ UNCHANGED file
    /\ UNCHANGED <<dirExists, hist>>
    /\ UNCHANGED loggerVars
    /\ UNCHANGED utilVars
    /\ UNCHANGED ioVars

\* readJSONFile, lines 835-838: the existence check; without a file the call
\* rejects at once, otherwise the read is started.
ReadCall(p) ==
    /\ pc[p] = "idle"
    /\ IF ~file.exists
       THEN /\ result' = ReadResult("error", FALSE, FALSE, <<>>, NoValue,
                             ReadJSONError(FilePath, NotFoundError(FilePath)),
                             NotFoundError(FilePath), hist)
            /\ UNCHANGED <<pc, call>>
       ELSE /\ pc' = [pc EXCEPT ![p] = "r_read"]
            /\ call' = [call EXCEPT ![p] = [op |-> "read"]]
            /\ result' = NoResult
    /\ UNCHANGED <<dirExists, file, hist>>
    /\ UNCHANGED loggerVars
    /\ UNCHANGED utilVars
    /\ UNCHANGED ioVars

\* readJSONFile, lines 839-847: readFile settles.
ReadDone(p) ==
    /\ pc[p] = "r_read"
    /\ \E readFails \in BOOLEAN :
         result' = IF readFails
                   THEN ReadResult("error", TRUE, FALSE, <<>>, NoValue,
                                   ReadJSONError(FilePath, ReadFault(FilePath)),
                                   ReadFault(FilePath), hist)
                   ELSE ReadOutcome(FilePath, file.text, hist)
    /\ pc' = [pc EXCEPT ![p] = "idle"]
    /\ call' = [call EXCEPT ![p] = NoCall]
    /\ UNCHANGED <<dirExists, file, hist>>
    /\ UNCHANGED loggerVars
    /\ UNCHANGED utilVars
    /\ UNCHANGED ioVars

\* ---------------------------------------------------------------- logger

\* Text the logger inspects is a sequence of one-character strings.

\* \w of a regular expression
WordChars ==
  {
    "a", "b", "c", "d", "e", "f", "g", "h", "i", "j", "k", "l", "m", "n",
    "o", "p", "q", "r", "s", "t", "u", "v", "w", "x", "y", "z", "A", "B",
    "C", "D", "E", "F", "G", "H", "I", "J", "K", "L", "M", "N", "O", "P",
    "Q", "R", "S", "T", "U", "V", "W", "X", "Y", "Z", "0", "1", "2", "3",
    "4", "5", "6", "7", "8", "9", "_" }

\* \s, as far as a stack line holds any
SpaceChars == {" ", "\t"}

\* String.prototype.includes
Includes(line, pat) ==
    \E i \in 1..(Len(line) - Len(pat) + 1) :
       line[i] = pat[1] /\ SubSeq(line, i, i + Len(pat) - 1) = pat

RECURSIVE RunEnd(_, _, _)
\* The index after the longest run of characters of `class` starting at i.
RunEnd(line, i, class) ==
    IF i <= Len(line) /\ line[i] \in class THEN RunEnd(line, i + 1, class) ELSE i

\* Where /at\s+(\w+)\s+\(/ matches from index i: the capture's bounds.
CallerMatchAt(line, i) ==
    LET j == RunEnd(line, i + 2, SpaceChars)
        k == RunEnd(line, j, WordChars)
        m == RunEnd(line, k, SpaceChars)
    IN IF i + 1 <= Len(line) /\ line[i] = "a" /\ line[i + 1] = "t"
          /\ j > i + 2 /\ k > j /\ m > k /\ m <= Len(line) /\ line[m] = "("
       THEN [ok |-> TRUE, name |-> SubSeq(line, j, k - 1)]
       ELSE [ok |-> FALSE]

\* line.match(/at\s+(\w+)\s+\(/): the leftmost match.
CallerMatch(line) ==
    LET starts == {i \in 1..Len(line) : CallerMatchAt(line, i).ok} IN
    IF starts = {} THEN [ok |-> FALSE]
    ELSE CallerMatchAt(line, CHOOSE i \in starts : \A j \in starts : i <= j)

AnonymousWord == <<"<", "a", "n", "o", "n", "y", "m", "o", "u", "s", ">">>

\* line.match(/at\s+<anonymous>\s+\(/)
AnonymousCallMatch(line) ==
    \E i \in 1..Len(line) :
       LET j == RunEnd(line, i + 2, SpaceChars)
           k == j + Len(AnonymousWord)
           m == RunEnd(line, k, SpaceChars)
       IN /\ i + 1 <= Len(line) /\ line[i] = "a" /\ line[i + 1] = "t"
          /\ j > i + 2 /\ k - 1 <= Len(line) /\ SubSeq(line, j, k - 1) = AnonymousWord
          /\ m > k /\ m <= Len(line) /\ line[m] = "("

\* lines 1297: the frames of the logger itself and of module loading
SkipPatterns ==
  {
    <<"L", "o", "g", "g", "e", "r", ".", "l", "o", "g">>,
    <<"L", "o", "g", "g", "e", "r", ".", "s", "u", "c", "c", "e", "s", "s">>,
    <<"L", "o", "g", "g", "e", "r", ".", "e", "r", "r", "o", "r">>,
    <<"L", "o", "g", "g", "e", "r", ".", "w", "a", "r", "n">>,
    <<"L", "o", "g", "g", "e", "r", ".", "i", "n", "f", "o">>,
    <<"L", "o", "g", "g", "e", "r", ".", "d", "e", "b", "u", "g">>,
    <<"L", "o", "g", "g", "e", "r", ".", "c", "u", "s", "t", "o", "m">>,
    <<"F", "u", "n", "c", "t", "i", "o", "n", ".", "g", "e", "t", "C", "a", "l", "l", "e", "r", "N", "a", "m", "e">>,
    <<"F", "u", "n", "c", "t", "i", "o", "n", ".", "l", "o", "g", "W", "i", "t", "h", "R", "e", "t", "u", "r", "n">>,
    <<"F", "u", "n", "c", "t", "i", "o", "n", ".", "c", "u", "s", "t", "o", "m", "W", "i", "t", "h", "R", "e", "t", "u", "r", "n">>,
    <<"a", "t", " ", "O", "b", "j", "e", "c", "t", ".", "<", "a", "n", "o", "n", "y", "m", "o", "u", "s", ">">>,
    <<"M", "o", "d", "u", "l", "e", ".", "_", "c", "o", "m", "p", "i", "l", "e">>,
    <<"a", "t", " ", "M", "o", "d", "u", "l", "e", ".", "l", "o", "a", "d">>,
    <<"t", "r", "a", "n", "s", "f", "o", "r", "m", "e", "r">> }

AtAnonymous == <<"a", "t", " ", "<", "a", "n", "o", "n", "y", "m", "o", "u", "s", ">">>

FnPrefix == <<"f", "n", ":", " ">>

ObjectWord == <<"O", "b", "j", "e", "c", "t">>

FunctionWord == <<"F", "u", "n", "c", "t", "i", "o", "n">>

\* lines 1296-1311, one turn of the loop: "skip" to go on to the next line,
\* or the tag to return.
FrameVerdict(line) ==
    IF \E pat \in SkipPatterns : Includes(line, pat) THEN [skip |-> TRUE]
    ELSE IF Includes(line, AtAnonymous) /\ ~AnonymousCallMatch(line) THEN [skip |-> TRUE]
    ELSE IF \A i \in 1..Len(line) : line[i] \in SpaceChars THEN [skip |-> TRUE]
    ELSE LET match == CallerMatch(line) IN
         IF match.ok /\ match.name # ObjectWord /\ match.name # FunctionWord
         THEN [skip |-> FALSE, tag |-> FnPrefix \o match.name]
         ELSE IF Includes(line, AtAnonymous)
         THEN [skip |-> FALSE, tag |-> FnPrefix \o AnonymousWord]
         ELSE [skip |-> TRUE]

RECURSIVE ScanFrames(_, _)
\* lines 1295-1314: the loop, i counting lines from 1
ScanFrames(stackLines, i) ==
    IF i > Len(stackLines) THEN <<>>
    ELSE LET v == FrameVerdict(stackLines[i]) IN
         IF v.skip THEN ScanFrames(stackLines, i + 1) ELSE v.tag

\* Logger.getCallerNameForced, lines 1291-1315: the scan starts at the third
\* line of the stack text.
GetCallerNameForced(stackLines) == ScanFrames(stackLines, 3)

\* detectedFunctionName.replace("fn: ", ""): the first occurrence removed.
RemoveFnPrefix(tag) ==
    LET hits == {i \in 1..(Len(tag) - Len(FnPrefix) + 1) :
                    SubSeq(tag, i, i + Len(FnPrefix) - 1) = FnPrefix} IN
    IF hits = {} THEN tag
    ELSE LET i == CHOOSE h \in hits : \A g \in hits : h <= g IN
         SubSeq(tag, 1, i - 1) \o SubSeq(tag, i + Len(FnPrefix), Len(tag))

\* ---- the stack text of a logger call

Indent == <<" ", " ", " ", " ">>

AtSpace == <<"a", "t", " ">>

Location == <<" ", "(", "/", "a", "p", "p", "/", "a", ".", "j", "s", ":", "1", ":", "1", ")">>

LoggerWord == <<"L", "o", "g", "g", "e", "r">>

NameChars(name) ==
    CASE name = "getCallerNameForced" -> <<"g", "e", "t", "C", "a", "l", "l", "e", "r", "N", "a", "m", "e", "F", "o", "r", "c", "e", "d">>
      [] name = "logWithReturn" -> <<"l", "o", "g", "W", "i", "t", "h", "R", "e", "t", "u", "r", "n">>
      [] name = "customWithReturn" -> <<"c", "u", "s", "t", "o", "m", "W", "i", "t", "h", "R", "e", "t", "u", "r", "n">>
      [] name = "success" -> <<"s", "u", "c", "c", "e", "s", "s">>
      [] name = "error" -> <<"e", "r", "r", "o", "r">>
      [] name = "warn" -> <<"w", "a", "r", "n">>
      [] name = "info" -> <<"i", "n", "f", "o">>
      [] name = "debug" -> <<"d", "e", "b", "u", "g">>
      [] name = "custom" -> <<"c", "u", "s", "t", "o", "m">>

\* The frame of a static method of Logger; the engine names the receiver
\* "Logger" or "Function".
StaticFrame(style, name) ==
    Indent \o AtSpace \o (IF style.static = "Logger" THEN LoggerWord ELSE FunctionWord)
        \o <<".">> \o NameChars(name) \o Location

\* The frame of an arrow function of Logger.pfn; the engine prints the bare
\* name or the name after "Object.".
ArrowFrame(style, name) ==
    Indent \o AtSpace \o (IF style.arrow = "Object" THEN ObjectWord \o <<".">> ELSE <<>>)
        \o NameChars(name) \o Location

EngineStyles == [static : {"Logger", "Function"}, arrow : {"bare", "Object"}]

\* The frames of the hosting application, by kind.
FrameKinds == {"named", "method", "anonymousCall", "topLevel"}

FrameLine(kind) ==
    CASE kind = "named" -> <<" ", " ", " ", " ", "a", "t", " ", "h", "a", "n", "d", "l", "e", "R", "e", "q", "u", "e", "s", "t", " ", "(", "/", "a", "p", "p", "/", "a", ".", "j", "s", ":", "1", ":", "1", ")">>
      [] kind = "method" -> <<" ", " ", " ", " ", "a", "t", " ", "S", "e", "r", "v", "i", "c", "e", ".", "r", "u", "n", " ", "(", "/", "a", "p", "p", "/", "a", ".", "j", "s", ":", "1", ":", "1", ")">>
      [] kind = "anonymousCall" -> <<" ", " ", " ", " ", "a", "t", " ", "<", "a", "n", "o", "n", "y", "m", "o", "u", "s", ">", " ", "(", "/", "a", "p", "p", "/", "a", ".", "j", "s", ":", "1", ":", "1", ")">>
      [] kind = "topLevel" -> <<" ", " ", " ", " ", "a", "t", " ", "O", "b", "j", "e", "c", "t", ".", "<", "a", "n", "o", "n", "y", "m", "o", "u", "s", ">", " ", "(", "/", "a", "p", "p", "/", "a", ".", "j", "s", ":", "1", ":", "1", ")">>

ErrorLine == <<"E", "r", "r", "o", "r">>

\* new Error().stack.split("\n") inside getCallerNameForced: the header, the
\* logger's own three frames, then the application's frames, innermost first.
StackLines(style, inner, entry, forced, callers) ==
    <<ErrorLine, StaticFrame(style, "getCallerNameForced"), StaticFrame(style, inner),
      IF forced THEN ArrowFrame(style, entry) ELSE StaticFrame(style, entry)>>
      \o [i \in 1..Len(callers) |-> FrameLine(callers[i])]

\* ---- the logger's calls

\* TerminalColors, by name; ESC stands for the escape character.
TerminalColor(name) ==
    CASE name = "_reset"  -> "ESC[0m"
      [] name = "_dim"    -> "ESC[2m"
      [] name = "RED"     -> "ESC[31m"
      [] name = "GREEN"   -> "ESC[32m"
      [] name = "YELLOW"  -> "ESC[33m"
      [] name = "BLUE"    -> "ESC[34m"
      [] name = "MAGENTA" -> "ESC[35m"
      [] name = "CYAN"    -> "ESC[36m"
      [] name = "BRIGHT_YELLOW"  -> "ESC[93m"
      [] name = "BYELLOW" -> "ESC[43m"
      [] name = "BBRIGHT_YELLOW" -> "ESC[103m"
      [] OTHER            -> "undefined"

\* ColorOf with the bright yellow background for WARN.
ColorOfWarnBright(type) ==
    CASE type = "DEBUG"   -> TerminalColor("MAGENTA")
      [] type = "WARN"    -> TerminalColor("BBRIGHT_YELLOW")
      [] type = "ERROR"   -> TerminalColor("RED")
      [] type = "INFO"    -> TerminalColor("BLUE")
      [] type = "SUCCESS" -> TerminalColor("GREEN")
      [] OTHER            -> TerminalColor("_reset")

\* lines 1340-1347: colorMap[type] || TerminalColors._reset
ColorOf(type) ==
    CASE type = "DEBUG"   -> TerminalColor("MAGENTA")
      [] type = "WARN"    -> TerminalColor("BYELLOW")
      [] type = "ERROR"   -> TerminalColor("RED")
      [] type = "INFO"    -> TerminalColor("BLUE")
      [] type = "SUCCESS" -> TerminalColor("GREEN")
      [] OTHER            -> TerminalColor("_reset")

\* The level methods and the level each passes on (lines 1383-1417, 1256-1260).
LevelMethods == {"success", "error", "warn", "info", "debug"}

LevelOf(api) ==
    CASE api = "success" -> "SUCCESS"
      [] api = "error"   -> "ERROR"
      [] api = "warn"    -> "WARN"
      [] api = "info"    -> "INFO"
      [] api = "debug"   -> "DEBUG"

\* An object that refers to itself.
Cyclic == [t |-> "cyclic"]

\* What callers log.
ArgValues == {Str("hello"), ObjA1, Cyclic}

ArgLists == SeqsUpTo(ArgValues, MaxArgs)

\* The options of a custom call: a type, and a color name or none.
CustomOpts == {[type |-> "AUDIT", color |-> ""], [type |-> "AUDIT", color |-> "GREEN"]}

\* Time.getTimeToLogFormat() at the moment of a call.
Times == {"04/11/2026:12:00:00"}

\* typeof a === "object"
IsObjectType(a) == a.t \in {"obj", "arr", "null", "cyclic"}

\* JSON.stringify throws a TypeError on a cyclic structure.
StringifyThrows(a) == a.t = "cyclic"

\* lines 1359-1367, the callback of args.map: the console text of one
\* argument.
RenderArg(a) ==
    IF a.t = "error" THEN <<IF a.stack # "" THEN a.stack ELSE a.message>>
    ELSE IF IsObjectType(a) THEN JSONstringifyCompact(a)
    ELSE CASE a.t = "str"  -> <<a.s>>
           [] a.t = "num"  -> <<Digits[a.n + 1]>>
           [] a.t = "bool" -> <<IF a.b THEN "true" ELSE "false">>
           [] OTHER        -> <<"undefined">>

RECURSIVE JoinRendered(_, _)
\* args.map(...).join(" ")
JoinRendered(args, i) ==
    IF i > Len(args) THEN <<>>
    ELSE RenderArg(args[i]) \o (IF i < Len(args) THEN <<" ">> ELSE <<>>)
            \o JoinRendered(args, i + 1)

\* ProcessedMessage returning the argument list whatever its length.
ProcessedMessageAlwaysList(args) == Arr(args)

\* lines 1351-1358 and 1432-1439: the message of the returned record
ProcessedMessage(args) ==
    IF Len(args) = 1 THEN args[1]
    ELSE IF Len(args) > 1 THEN Arr(args)
    ELSE Str("")

NoLog == [api |-> "none"]

\* Logger.getCallerName, lines 1263-1290: the scan of getCallerNameForced
\* behind the flag; its own stack differs in the second line only, which
\* neither scan looks at.
GetCallerName(stackLines) ==
    IF ~showFunctionName THEN <<>> ELSE ScanFrames(stackLines, 3)

CircularError == Err("TypeError", <<"Converting circular structure to JSON">>)

\* DisplayFunctionName looking at the flag alone, the forced calls included.
DisplayFunctionNameByFlagOnly(withFunctionName, detectedFunctionName, stackLines) ==
    IF showFunctionName THEN detectedFunctionName ELSE <<>>

\* lines 1350 and 1431: the caller annotation of the console line
DisplayFunctionName(withFunctionName, detectedFunctionName, stackLines) ==
    IF withFunctionName THEN detectedFunctionName
    ELSE IF showFunctionName THEN GetCallerName(stackLines) ELSE <<>>

\* What logWithReturn and customWithReturn share, lines 1348-1376 and
\* 1429-1456: the outcome of a call that prints with `color` and `type`.
PrintAndReturn(color, type, method, withFunctionName, args, stackLines, now) ==
    LET detectedFunctionName == GetCallerNameForced(stackLines)
        displayFunctionName ==
            DisplayFunctionName(withFunctionName, detectedFunctionName, stackLines)
    IN IF \E i \in 1..Len(args) : ~(args[i].t = "error") /\ StringifyThrows(args[i])
       THEN [status |-> "thrown", error |-> CircularError]
       ELSE [status |-> "returned",
             console |-> [method |-> method, time |-> now, color |-> color,
                          type |-> type, caller |-> displayFunctionName,
                          message |-> JoinRendered(args, 1)],
             record |-> [pfn |-> RemoveFnPrefix(detectedFunctionName),
                         timestamp |-> now,
                         message |-> ProcessedMessage(args),
                         level |-> type]]

\* Logger.logWithReturn, lines 1339-1377
LogWithReturn(type, withFunctionName, args, stackLines, now) ==
    PrintAndReturn(ColorOf(type), type,
                   IF type = "ERROR" \/ type = "WARN" THEN "log"
                   ELSE IF type = "INFO" THEN "info" ELSE "log",
                   withFunctionName, args, stackLines, now)

\* Logger.customWithReturn, lines 1427-1457
CustomWithReturn(opt, withFunctionName, args, stackLines, now) ==
    PrintAndReturn(TerminalColor(IF opt.color # "" THEN opt.color ELSE "CYAN"),
                   opt.type, "log", withFunctionName, args, stackLines, now)

\* LogCall with the pfn variants switching the flag on for the calls after.
LogCallForcedSetsFlag(api, forced, args, style, now) ==
    /\ logged = NoLog
    /\ logged' = [api |-> api, forced |-> forced, args |-> args,
                  flag |-> showFunctionName,
                  out |-> LogWithReturn(LevelOf(api),
                                        IF forced THEN TRUE ELSE showFunctionName, args,
                                        StackLines(style, "logWithReturn", api, forced, frames),
                                        now)]
    /\ showFunctionName' = (showFunctionName \/ forced)
    /\ UNCHANGED frames
    /\ UNCHANGED storeVars
    /\ UNCHANGED utilVars
    /\ UNCHANGED ioVars

\* Logger.success/error/warn/info/debug (lines 1383-1417) and their pfn
\* variants (lines 1256-1260).
LogCall(api, forced, args, style, now) ==
    /\ logged = NoLog
    /\ logged' = [api |-> api, forced |-> forced, args |-> args,
                  flag |-> showFunctionName,
                  out |-> LogWithReturn(LevelOf(api),
                                        IF forced THEN TRUE ELSE showFunctionName, args,
                                        StackLines(style, "logWithReturn", api, forced, frames),
                                        now)]
    /\ UNCHANGED <<showFunctionName, frames>>
    /\ UNCHANGED storeVars
    /\ UNCHANGED utilVars
    /\ UNCHANGED ioVars

\* Logger.custom (lines 1424-1426) and Logger.pfn.custom (line 1261).
CustomCall(opt, forced, args, style, now) ==
    /\ logged = NoLog
    /\ logged' = [api |-> "custom", forced |-> forced, args |-> args,
                  flag |-> showFunctionName, opt |-> opt,
                  out |-> CustomWithReturn(opt,
                                           IF forced THEN TRUE ELSE showFunctionName, args,
                                           StackLines(style, "customWithReturn", "custom",
                                                      forced, frames),
                                           now)]
    /\ UNCHANGED <<showFunctionName, frames>>
    /\ UNCHANGED storeVars
    /\ UNCHANGED utilVars
    /\ UNCHANGED ioVars

\* The caller goes on with the record returned (or the error thrown).
LogSettled ==
    /\ logged # NoLog
    /\ logged' = NoLog
    /\ UNCHANGED <<showFunctionName, frames>>
    /\ UNCHANGED storeVars
    /\ UNCHANGED utilVars
    /\ UNCHANGED ioVars

\* The hosting application assigns Logger.showFunctionName (line 1251), be
\* it while it holds the record of the call it just made.
SetShowFunctionName(b) ==
    /\ showFunctionName' = b
    /\ UNCHANGED <<frames, logged>>
    /\ UNCHANGED storeVars
    /\ UNCHANGED utilVars
    /\ UNCHANGED ioVars

\* The application calls into, and returns from, one of its functions.
EnterFunction(kind) ==
    /\ logged = NoLog
    /\ Len(frames) < MaxFrames
    /\ frames' = <<kind>> \o frames
    /\ UNCHANGED <<showFunctionName, logged>>
    /\ UNCHANGED storeVars
    /\ UNCHANGED utilVars
    /\ UNCHANGED ioVars

LeaveFunction ==
    /\ logged = NoLog
    /\ frames # <<>>
    /\ frames' = Tail(frames)
    /\ UNCHANGED <<showFunctionName, logged>>
    /\ UNCHANGED storeVars
    /\ UNCHANGED utilVars
    /\ UNCHANGED ioVars

LoggerInit ==
    /\ showFunctionName = FALSE
    /\ frames = <<>>
    /\ logged = NoLog

\* ------------------------------------------------------------- utilities

NoUtil == [op |-> "none"]

\* ---- mimeType

\* The cases of the switch, lines 584-714: extension and MIME string.
MimeTable ==
  {
    [ext |-> <<"m", "p", "4">>, mime |-> "video/mp4"],
    [ext |-> <<"m", "p", "e", "g">>, mime |-> "video/mpeg"],
    [ext |-> <<"m", "p", "g">>, mime |-> "video/mpeg"],
    [ext |-> <<"m", "p", "e">>, mime |-> "video/mpeg"],
    [ext |-> <<"m", "p", "v">>, mime |-> "video/mpeg"],
    [ext |-> <<"m", "p", "2">>, mime |-> "video/mpeg"],
    [ext |-> <<"m", "2", "v">>, mime |-> "video/mpeg"],
    [ext |-> <<"m", "2", "t", "s">>, mime |-> "video/mpeg"],
    [ext |-> <<"m", "t", "s">>, mime |-> "video/mpeg"],
    [ext |-> <<"t", "t", "s">>, mime |-> "video/mpeg"],
    [ext |-> <<"m", "2", "t">>, mime |-> "video/mpeg"],
    [ext |-> <<"t", "s", "v">>, mime |-> "video/mpeg"],
    [ext |-> <<"t", "s", "a">>, mime |-> "video/mpeg"],
    [ext |-> <<"w", "e", "b", "m">>, mime |-> "video/webm"],
    [ext |-> <<"3", "g", "p">>, mime |-> "video/3gpp"],
    [ext |-> <<"m", "k", "v">>, mime |-> "video/x-matroska"],
    [ext |-> <<"a", "v", "i">>, mime |-> "video/x-msvideo"],
    [ext |-> <<"m", "o", "v">>, mime |-> "video/quicktime"],
    [ext |-> <<"w", "m", "v">>, mime |-> "video/x-ms-wmv"],
    [ext |-> <<"f", "l", "v">>, mime |-> "video/x-flv"],
    [ext |-> <<"m", "4", "v">>, mime |-> "video/x-m4v"],
    [ext |-> <<"m", "p", "3">>, mime |-> "audio/mpeg"],
    [ext |-> <<"m", "4", "a">>, mime |-> "audio/mp4"],
    [ext |-> <<"m", "4", "b">>, mime |-> "audio/mp4"],
    [ext |-> <<"m", "4", "p">>, mime |-> "audio/mp4"],
    [ext |-> <<"m", "4", "r">>, mime |-> "audio/mp4"],
    [ext |-> <<"w", "a", "v">>, mime |-> "audio/wav"],
    [ext |-> <<"o", "g", "g">>, mime |-> "audio/ogg"],
    [ext |-> <<"a", "a", "c">>, mime |-> "audio/aac"],
    [ext |-> <<"f", "l", "a", "c">>, mime |-> "audio/flac"],
    [ext |-> <<"a", "l", "a", "c">>, mime |-> "audio/alac"],
    [ext |-> <<"j", "p", "g">>, mime |-> "image/jpeg"],
    [ext |-> <<"j", "p", "e", "g">>, mime |-> "image/jpeg"],
    [ext |-> <<"p", "n", "g">>, mime |-> "image/png"],
    [ext |-> <<"g", "i", "f">>, mime |-> "image/gif"],
    [ext |-> <<"b", "m", "p">>, mime |-> "image/bmp"],
    [ext |-> <<"w", "e", "b", "p">>, mime |-> "image/webp"],
    [ext |-> <<"s", "v", "g">>, mime |-> "image/svg+xml"],
    [ext |-> <<"i", "c", "o">>, mime |-> "image/x-icon"],
    [ext |-> <<"t", "i", "f", "f">>, mime |-> "image/tiff"],
    [ext |-> <<"p", "s", "d">>, mime |-> "image/vnd.adobe.photoshop"],
    [ext |-> <<"a", "i">>, mime |-> "application/postscript"],
    [ext |-> <<"e", "p", "s">>, mime |-> "application/postscript"],
    [ext |-> <<"i", "n", "d", "d">>, mime |-> "application/x-indesign"],
    [ext |-> <<"r", "a", "w">>, mime |-> "image/x-raw"],
    [ext |-> <<"c", "r", "2">>, mime |-> "image/x-canon-cr2"],
    [ext |-> <<"n", "e", "f">>, mime |-> "image/x-nikon-nef"],
    [ext |-> <<"o", "r", "f">>, mime |-> "image/x-olympus-orf"],
    [ext |-> <<"r", "w", "2">>, mime |-> "image/x-panasonic-rw2"],
    [ext |-> <<"p", "e", "f">>, mime |-> "image/x-pentax-pef"],
    [ext |-> <<"a", "r", "w">>, mime |-> "image/x-sony-arw"],
    [ext |-> <<"d", "n", "g">>, mime |-> "image/x-adobe-dng"],
    [ext |-> <<"x", "3", "f">>, mime |-> "image/x-sigma-x3f"],
    [ext |-> <<"c", "r", "3">>, mime |-> "image/x-canon-cr3"],
    [ext |-> <<"h", "e", "i", "c">>, mime |-> "image/heic"],
    [ext |-> <<"h", "e", "i", "f">>, mime |-> "image/heif"],
    [ext |-> <<"a", "v", "i", "f">>, mime |-> "image/avif"],
    [ext |-> <<"p", "d", "f">>, mime |-> "application/pdf"],
    [ext |-> <<"t", "x", "t">>, mime |-> "text/plain"],
    [ext |-> <<"h", "t", "m", "l">>, mime |-> "text/html"],
    [ext |-> <<"c", "s", "s">>, mime |-> "text/css"],
    [ext |-> <<"j", "s">>, mime |-> "application/javascript"],
    [ext |-> <<"j", "s", "o", "n">>, mime |-> "application/json"],
    [ext |-> <<"x", "m", "l">>, mime |-> "application/xml"],
    [ext |-> <<"z", "i", "p">>, mime |-> "application/zip"],
    [ext |-> <<"r", "a", "r">>, mime |-> "application/x-rar-compressed"],
    [ext |-> <<"7", "z">>, mime |-> "application/x-7z-compressed"] }

OctetStream == "application/octet-stream"

\* lines 584-714: switch (ext), strict comparison, default last
MimeOfExt(ext) ==
    IF \E row \in MimeTable : row.ext = ext
    THEN (CHOOSE row \in MimeTable : row.ext = ext).mime
    ELSE OctetStream

RECURSIVE LastDot(_, _)
\* The index of the last "." of a name at or before i, 0 if there is none.
LastDot(fileName, i) ==
    IF i = 0 THEN 0
    ELSE IF fileName[i] = "." THEN i ELSE LastDot(fileName, i - 1)

\* line 583: fileName.split(".").pop(): what follows the last ".", the
\* whole name when it holds none.
SplitPop(fileName) ==
    SubSeq(fileName, LastDot(fileName, Len(fileName)) + 1, Len(fileName))

\* mimeType, lines 582-715
MimeType(fileName) == MimeOfExt(SplitPop(fileName))

LowerLetters == <<"a", "b", "c", "d", "e", "f", "g", "h", "i", "j", "k", "l", "m", "n", "o", "p", "q", "r", "s", "t", "u", "v", "w", "x", "y", "z">>

UpperLetters == <<"A", "B", "C", "D", "E", "F", "G", "H", "I", "J", "K", "L", "M", "N", "O", "P", "Q", "R", "S", "T", "U", "V", "W", "X", "Y", "Z">>

\* String.prototype.toLowerCase and toUpperCase over ASCII.
ToLowerCase(str) ==
    [i \in 1..Len(str) |->
        IF \E k \in 1..26 : str[i] = UpperLetters[k]
        THEN LowerLetters[CHOOSE k \in 1..26 : str[i] = UpperLetters[k]]
        ELSE str[i]]

ToUpperCase(str) ==
    [i \in 1..Len(str) |->
        IF \E k \in 1..26 : str[i] = LowerLetters[k]
        THEN UpperLetters[CHOOSE k \in 1..26 : str[i] = LowerLetters[k]]
        ELSE str[i]]

TableExts == {row.ext : row \in MimeTable}

\* Extensions the table does not hold.
OtherExts == {<<"x", "y", "z">>, <<"d", "o", "c", "x">>, <<>>}

\* What a name has before its extension: nothing at all (the name is the
\* bare word), a stem, a stem with a dot of its own, a leading dot alone.
Stems ==
    { <<>>,
      <<"p", "h", "o", "t", "o", ".">>,
      <<"a", "r", "c", "h", "i", "v", "e", ".", "t", "a", "r", ".">>,
      <<".">> }

\* The file names mimeType is given: every extension, in lower and in upper
\* case, after every stem; and README.
FileNames ==
    {stem \o e : stem \in Stems, e \in TableExts \cup OtherExts}
      \cup {stem \o ToUpperCase(e) : stem \in Stems, e \in TableExts \cup OtherExts}
      \cup {<<"R", "E", "A", "D", "M", "E">>}

\* A call of mimeType.
MimeTypeCall(fileName) ==
    /\ util' = [op |-> "mimeType", fileName |-> fileName, value |-> MimeType(fileName)]
    /\ UNCHANGED <<terminals, instance, env>>
    /\ UNCHANGED storeVars
    /\ UNCHANGED loggerVars
    /\ UNCHANGED ioVars

\* ---- IOF.calculateHashByBuffer, IOF.calculateSizeByBuffer

Buf(bytes) == [t |-> "buffer", bytes |-> bytes]

\* A Uint8Array that is no Buffer.
Uint8Array(bytes) == [t |-> "uint8array", bytes |-> bytes]

ByteValues == {0, 255}

Buffers == {Buf(bytes) : bytes \in SeqsUpTo(ByteValues, MaxBytes)}

\* What the two functions are given: buffers, the empty one included, and
\* values that are no Buffer.
BufferInputs ==
    Buffers \cup {Uint8Array(<<255>>), Str("abc"), Arr(<<>>), Null, NoValue}

\* Buffer.isBuffer
IsBuffer(v) == v.t = "buffer"

\* BufferCheck letting the empty buffer through.
BufferCheckAllowsEmpty(buffer) ==
    IF ~IsBuffer(buffer) THEN Err("Error", <<"Input must be a Buffer">>)
    ELSE NoError

\* lines 855-860 and 869-874: the validation both functions start with;
\* the error thrown, or none
BufferCheck(buffer) ==
    IF ~IsBuffer(buffer) THEN Err("Error", <<"Input must be a Buffer">>)
    ELSE IF Len(buffer.bytes) = 0 THEN Err("Error", <<"Buffer cannot be empty">>)
    ELSE NoError

\* crypto.createHash("sha256").update(buffer).digest("hex"): the digest of
\* the bytes, left uninterpreted.
Sha256Hex(bytes) == [t |-> "sha256hex", of |-> bytes]

\* Buffer.byteLength(buffer)
ByteLength(buffer) == Len(buffer.bytes)

\* IOF.calculateHashByBuffer, lines 854-862
CalculateHashByBuffer(buffer) ==
    IF BufferCheck(buffer) # NoError
    THEN [status |-> "thrown", error |-> BufferCheck(buffer)]
    ELSE [status |-> "returned", value |-> Sha256Hex(buffer.bytes)]

\* IOF.calculateSizeByBuffer, lines 868-876
CalculateSizeByBuffer(buffer) ==
    IF BufferCheck(buffer) # NoError
    THEN [status |-> "thrown", error |-> BufferCheck(buffer)]
    ELSE [status |-> "returned", value |-> ByteLength(buffer)]

HashCall(buffer) ==
    /\ util' = [op |-> "calculateHashByBuffer", input |-> buffer,
                out |-> CalculateHashByBuffer(buffer)]
    /\ UNCHANGED <<terminals, instance, env>>
    /\ UNCHANGED storeVars
    /\ UNCHANGED loggerVars
    /\ UNCHANGED ioVars

SizeCall(buffer) ==
    /\ util' = [op |-> "calculateSizeByBuffer", input |-> buffer,
                out |-> CalculateSizeByBuffer(buffer)]
    /\ UNCHANGED <<terminals, instance, env>>
    /\ UNCHANGED storeVars
    /\ UNCHANGED loggerVars
    /\ UNCHANGED ioVars

\* ---- Time.parseDate

\* A time value: milliseconds since the epoch, kept as whole days and the
\* milliseconds into the day, or NaN.
MsPerDay == 24 * 60 * 60 * 1000

TimeOf(day, ms) == [day |-> day, ms |-> ms]

NaNTime == [nan |-> TRUE]

\* The days either side of the epoch a Date can hold.
MaxTimeDays == 100 * 1000 * 1000

\* TimeClip: a finite number of milliseconds is a time value when it is
\* within 8.64e15 of the epoch.
TimeClip(day, ms) ==
    IF day >= -MaxTimeDays /\ (day < MaxTimeDays \/ (day = MaxTimeDays /\ ms = 0))
    THEN TimeOf(day, ms)
    ELSE NaNTime

\* A Date object.
DateObj(time) == [t |-> "date", time |-> time]

\* A finite number, written as whole days and milliseconds; NaN; Infinity.
Millis(day, ms) == [t |-> "num", day |-> day, ms |-> ms]

NaNNumber == [t |-> "num", special |-> "NaN"]

InfinityNumber == [t |-> "num", special |-> "Infinity"]

DigitValue(c) == CHOOSE n \in 0..9 : Digits[n + 1] = c

IsDigits(str, from, to) == \A i \in from..to : str[i] \in {Digits[n] : n \in 1..10}

RECURSIVE NumberAt(_, _, _)
\* The decimal number written at positions from..to.
NumberAt(str, from, to) ==
    IF to < from THEN 0
    ELSE NumberAt(str, from, to - 1) * 10 + DigitValue(str[to])

IsLeapYear(y) == (y % 4 = 0 /\ y % 100 # 0) \/ y % 400 = 0

DaysInMonth(y, m) ==
    IF m = 2 THEN (IF IsLeapYear(y) THEN 29 ELSE 28)
    ELSE IF m \in {4, 6, 9, 11} THEN 30 ELSE 31

\* The day number of a date of the proleptic Gregorian calendar, day 0
\* being 1970-01-01.
DaysFromCivil(y, m, d) ==
    LET yy == IF m <= 2 THEN y - 1 ELSE y
        era == yy \div 400
        yoe == yy - era * 400
        mp == (m + 9) % 12
        doy == (153 * mp + 2) \div 5 + d - 1
        doe == yoe * 365 + yoe \div 4 - yoe \div 100 + doy
    IN era * 146097 + doe - 719468

\* The string has the shape YYYY-MM-DD.
IsoDateShape(str, from) ==
    /\ Len(str) >= from + 9
    /\ IsDigits(str, from, from + 3) /\ str[from + 4] = "-"
    /\ IsDigits(str, from + 5, from + 6) /\ str[from + 7] = "-"
    /\ IsDigits(str, from + 8, from + 9)

\* The string has the shape YYYY-MM-DDTHH:mm:ssZ.
IsoDateTimeShape(str) ==
    /\ Len(str) = 20 /\ IsoDateShape(str, 1) /\ str[11] = "T"
    /\ IsDigits(str, 12, 13) /\ str[14] = ":"
    /\ IsDigits(str, 15, 16) /\ str[17] = ":"
    /\ IsDigits(str, 18, 19) /\ str[20] = "Z"

\* What a string not in the ISO format, or in it with a field out of range,
\* may parse to where the engine's own fallback accepts it.
FallbackTimes == {TimeOf(0, 0)}

\* Date.parse, as new Date(string) applies it: the time values the engine
\* may produce.  A string in the ISO format with every field in range has
\* one time value; a string with no digit at all has none (NaN); any other
\* string is left to the engine, which rejects it or reads some date in it.
DateParse(str) ==
    LET y == NumberAt(str, 1, 4)
        m == NumberAt(str, 6, 7)
        d == NumberAt(str, 9, 10)
        dateOk == m \in 1..12 /\ d >= 1 /\ d <= DaysInMonth(y, m)
        hh == NumberAt(str, 12, 13)
        mm == NumberAt(str, 15, 16)
        ss == NumberAt(str, 18, 19)
    IN IF Len(str) = 10 /\ IsoDateShape(str, 1) /\ dateOk
       THEN {TimeOf(DaysFromCivil(y, m, d), 0)}
       ELSE IF IsoDateTimeShape(str) /\ dateOk /\ hh < 24 /\ mm < 60 /\ ss < 60
       THEN {TimeOf(DaysFromCivil(y, m, d), ((hh * 60 + mm) * 60 + ss) * 1000)}
       ELSE IF \A i \in 1..Len(str) : str[i] \notin {Digits[n] : n \in 1..10}
       THEN {NaNTime}
       ELSE {NaNTime} \cup FallbackTimes

\* new Date(number): the time value of the Date made from a number.
DateOfNumber(n) ==
    IF "special" \in DOMAIN n THEN NaNTime ELSE TimeClip(n.day, n.ms)

\* IsNaNTime finding every time value in order.
IsNaNTimeNever(time) == FALSE

\* isNaN(date.getTime()), lines 1213, 1220, 1227
IsNaNTime(time) == time = NaNTime

\* Time.parseDate, lines 1211-1233, `parsed` being what new Date(input) made
\* of a string
ParseDate(input, parsed) ==
    IF input.t = "date"
    THEN IF IsNaNTime(input.time)
         THEN [status |-> "thrown", error |-> Err("Error", <<"Invalid Date object provided">>)]
         ELSE [status |-> "returned", value |-> input]
    ELSE IF input.t = "num"
    THEN IF IsNaNTime(DateOfNumber(input))
         THEN [status |-> "thrown", error |-> Err("Error", <<"Invalid timestamp provided">>)]
         ELSE [status |-> "returned", value |-> DateObj(DateOfNumber(input))]
    ELSE IF input.t = "str"
    THEN IF IsNaNTime(parsed)
         THEN [status |-> "thrown",
               error |-> Err("Error", <<"Unable to parse date string: ", Q>> \o input.s \o <<Q>>)]
         ELSE [status |-> "returned", value |-> DateObj(parsed)]
    ELSE [status |-> "thrown",
          error |-> Err("Error",
                        <<"Input must be a Date object, timestamp number, or valid date string">>)]

DateStrings ==
  {
    <<"1", "9", "7", "0", "-", "0", "1", "-", "0", "1">>,
    <<"2", "0", "2", "4", "-", "0", "2", "-", "2", "9">>,
    <<"1", "9", "7", "0", "-", "0", "1", "-", "0", "1", "T", "0", "0", ":", "0", "0", ":", "0", "1", "Z">>,
    <<"2", "0", "2", "4", "-", "0", "2", "-", "2", "9", "T", "2", "3", ":", "5", "9", ":", "5", "9", "Z">>,
    <<"2", "0", "2", "3", "-", "0", "2", "-", "3", "0">>,
    <<"2", "0", "2", "4", "-", "1", "3", "-", "0", "1">>,
    <<"2", "0", "2", "4", "-", "0", "2", "-", "2", "9", "T", "2", "5", ":", "0", "0", ":", "0", "0", "Z">>,
    <<"1", "2", "/", "2", "5", "/", "2", "0", "2", "4">>,
    <<"n", "o", "t", "-", "a", "-", "d", "a", "t", "e">>,
    <<>> }

\* What parseDate is given: Date objects, numbers, strings (as character
\* sequences), and values of other types.
DateInputs ==
    {DateObj(TimeOf(0, 0)), DateObj(TimeOf(19782, 1)), DateObj(NaNTime)}
      \cup {Millis(0, 0), Millis(19782, 1), Millis(MaxTimeDays, 0), Millis(MaxTimeDays, 1),
            Millis(-MaxTimeDays, 0), Millis(-MaxTimeDays - 1, MsPerDay - 1),
            NaNNumber, InfinityNumber}
      \cup {Str(str) : str \in DateStrings}
      \cup {Null, NoValue, Bool(TRUE), ObjA1, Arr(<<>>)}

ParseDateCall(input) ==
    /\ \E parsed \in (IF input.t = "str" THEN DateParse(input.s) ELSE {NaNTime}) :
          util' = [op |-> "parseDate", input |-> input, out |-> ParseDate(input, parsed)]
    /\ UNCHANGED <<terminals, instance, env>>
    /\ UNCHANGED storeVars
    /\ UNCHANGED loggerVars
    /\ UNCHANGED ioVars

\* ---- Terminal

\* The Terminal the module constructs and exports when loaded (line 1557).
ExportedTerminal == 1

\* Terminal.instance before getInstance has set it.
NoInstance == 0

\* line 1466-1478: the constructor; every Terminal constructed opens a
\* readline interface of its own on stdin and stdout.
Constructed(ts) == ts \cup {Cardinality(ts) + 1}

\* The readline interfaces open in the process.
ReadlineInterfaces == terminals

\* The application constructs a Terminal: the class is exported and its
\* constructor is public.
NewTerminal ==
    /\ Cardinality(terminals) < MaxTerminals
    /\ terminals' = Constructed(terminals)
    /\ util' = [op |-> "new Terminal", value |-> Cardinality(terminals) + 1]
    /\ UNCHANGED <<instance, env>>
    /\ UNCHANGED storeVars
    /\ UNCHANGED loggerVars
    /\ UNCHANGED ioVars

\* Terminal.prototype.getInstance, lines 1479-1484, called on the Terminal
\* `t`.
GetInstance(t) ==
    /\ t \in terminals
    /\ IF instance = NoInstance
       THEN /\ Cardinality(terminals) < MaxTerminals
            /\ terminals' = Constructed(terminals)
            /\ instance' = Cardinality(terminals) + 1
       ELSE UNCHANGED <<terminals, instance>>
    /\ util' = [op |-> "getInstance", on |-> t, value |-> instance']
    /\ UNCHANGED env
    /\ UNCHANGED storeVars
    /\ UNCHANGED loggerVars
    /\ UNCHANGED ioVars

\* ---- Terminal.envParser

\* process.env is the sequence of its variables in the order Object.keys
\* lists them; names are character sequences.
EnvVar(key, value) == [key |-> key, value |-> value]

EnvNames ==
    { <<"A", "P", "P", "_", "A">>,
      <<"A", "P", "P", "_", "B">>,
      <<"D", "B", "_", "U", "R", "L">> }

EnvValues == {"", "x"}

\* The .env file dotenv reads, when there is one.
DotenvFile ==
    << EnvVar(<<"A", "P", "P", "_", "A">>, "file"),
       EnvVar(<<"A", "P", "P", "_", "F">>, "f") >>

Prefixes == {<<"A", "P", "P", "_">>, <<"D", "B">>, <<>>}

EnvKeys(e) == {e[i].key : i \in 1..Len(e)}

\* process.env[key], for a key it holds
EnvGet(e, key) == e[CHOOSE i \in 1..Len(e) : e[i].key = key].value

RECURSIVE DotenvConfig(_, _, _)
\* dotenv.config, lines 1539-1542: the variables of the file that
\* process.env does not hold yet are added to it.
DotenvConfig(e, parsed, i) ==
    IF i > Len(parsed) THEN e
    ELSE DotenvConfig(IF parsed[i].key \in EnvKeys(e) THEN e ELSE Append(e, parsed[i]),
                      parsed, i + 1)

\* String.prototype.startsWith
StartsWith(key, prefix) ==
    Len(prefix) <= Len(key) /\ SubSeq(key, 1, Len(prefix)) = prefix

RECURSIVE FilterKeys(_, _, _)
\* lines 1543-1545: Object.keys(process.env).filter(key => key.startsWith(prefix))
FilterKeys(e, prefix, i) ==
    IF i > Len(e) THEN <<>>
    ELSE (IF StartsWith(e[i].key, prefix) THEN <<e[i].key>> ELSE <<>>)
            \o FilterKeys(e, prefix, i + 1)

RECURSIVE CollectTruthy(_, _, _)
\* lines 1546-1553: the keys whose value is truthy, with their values
CollectTruthy(e, envKeys, i) ==
    IF i > Len(envKeys) THEN [keys |-> <<>>, values |-> <<>>]
    ELSE LET rest == CollectTruthy(e, envKeys, i + 1) IN
         IF EnvGet(e, envKeys[i]) # ""
         THEN [keys |-> <<envKeys[i]>> \o rest.keys,
               values |-> <<EnvGet(e, envKeys[i])>> \o rest.values]
         ELSE rest

\* Terminal.envParser, lines 1538-1555, on the environment dotenv has
\* completed
EnvParser(e, prefix) == CollectTruthy(e, FilterKeys(e, prefix, 1), 1)

\* The application assigns a variable of process.env, or deletes one.
SetEnv(key, value) ==
    /\ IF key \in EnvKeys(env)
       THEN env' = [i \in 1..Len(env) |->
                       IF env[i].key = key THEN EnvVar(key, value) ELSE env[i]]
       ELSE /\ Len(env) < MaxEnv
            /\ env' = Append(env, EnvVar(key, value))
    /\ env' # env
    /\ util' = NoUtil
    /\ UNCHANGED <<terminals, instance>>
    /\ UNCHANGED storeVars
    /\ UNCHANGED loggerVars
    /\ UNCHANGED ioVars

DeleteEnv(key) ==
    /\ key \in EnvKeys(env)
    /\ env' = SelectSeq(env, LAMBDA v : v.key # key)
    /\ util' = NoUtil
    /\ UNCHANGED <<terminals, instance>>
    /\ UNCHANGED storeVars
    /\ UNCHANGED loggerVars
    /\ UNCHANGED ioVars

\* A call of envParser(prefix) on the Terminal `t`, with or without a .env
\* file to read.
EnvParserCall(t, prefix) ==
    /\ t \in terminals
    /\ \E parsed \in {<<>>, DotenvFile} :
          /\ env' = DotenvConfig(env, parsed, 1)
          /\ util' = [op |-> "envParser", on |-> t, prefix |-> prefix,
                      value |-> EnvParser(env', prefix)]
    /\ UNCHANGED <<terminals, instance>>
    /\ UNCHANGED storeVars
    /\ UNCHANGED loggerVars
    /\ UNCHANGED ioVars

\* ---- IOF file operations: mkdir, rm, readTextFile, saveBufferToFile,
\* ---- downloadFile, fileToGenerativePath

\* The one directory and the one file in it the operations are given:
\* OutFile is what path.resolve / path.join make of OutDir and the name.
OutDir == "out"

OutFile == "out/a.png"

OutFileName == <<"a", ".", "p", "n", "g">>

NoEntFault(filePath) ==
    Err("Error", <<"ENOENT: no such file or directory, open '", filePath, "'">>)

RmFault(dirPath) ==
    Err("Error", <<"EACCES: permission denied, rm '", dirPath, "'">>)

FetchFault == Err("TypeError", <<"fetch failed">>)

\* How an operation ends: it returns (resolves with) a value, or throws
\* (rejects with) `error`, `cause` being the error it caught, or the error
\* itself when nothing caught it.
Completed(value) == [status |-> "returned", value |-> value]

Thrown(error, cause) == [status |-> "thrown", error |-> error, cause |-> cause]

\* `${error}` for an Error: Error.prototype.toString, name, ": ", message.
ErrorToString(error) == <<error.name, ": ">> \o error.message

\* line 769
RmError(dirPath, error) ==
    Err("Error", <<"Failed to remove at ", dirPath, ": ">> \o error.message)

\* line 905
SaveBufferError(error) ==
    Err("Error", <<"Failed to set file location: ">> \o error.message)

\* line 929
DownloadError(error) ==
    Err("Error", <<"Failed to download file: ">> \o ErrorToString(error))

\* line 943
ReadTextError(filePath, error) ==
    Err("Error", <<"Failed to read file at ", filePath>>)

\* line 975
GenerativePathError(error) ==
    Err("Error", <<"Failed to convert file to generative path: ">> \o ErrorToString(error))

\* buffer.toString("base64"), left uninterpreted.
Base64(bytes) == [t |-> "base64", of |-> bytes]

\* What a write of `bytes` to OutFile makes of the disk `d`: done, failed
\* with the file as it was, or failed with the file opened and truncated.
WriteOutcomes == {"written", "failed", "truncated"}

AfterWrite(d, bytes, write) ==
    CASE write = "written" -> [d EXCEPT !.file = FileOf(bytes)]
      [] write = "failed" -> d
      [] write = "truncated" -> [d EXCEPT !.file = FileOf(<<>>)]

\* IOF.mkdir, lines 749-757, on OutDir.
Mkdir(d, mkdirFails) ==
    IF d.dir THEN [disk |-> d, out |-> Completed(NoValue)]
    ELSE IF mkdirFails
    THEN [disk |-> d,
          out |-> Thrown(MkdirError(OutDir, MkdirFault(OutDir)), MkdirFault(OutDir))]
    ELSE [disk |-> [d EXCEPT !.dir = TRUE], out |-> Completed(NoValue)]

\* IOF.rm, lines 763-771, on OutDir: the directory goes with what is in it.
Rm(d, rmFails) ==
    IF ~d.dir THEN [disk |-> d, out |-> Completed(NoValue)]
    ELSE IF rmFails
    THEN [disk |-> d, out |-> Thrown(RmError(OutDir, RmFault(OutDir)), RmFault(OutDir))]
    ELSE [disk |-> [dir |-> FALSE, file |-> NoFile], out |-> Completed(NoValue)]

\* fs.promises.readFile of OutFile: the fault it rejects with, or none.
ReadFileFault(d, readFails) ==
    IF ~d.file.exists THEN NoEntFault(OutFile)
    ELSE IF readFails THEN ReadFault(OutFile)
    ELSE NoError

\* IOF.readTextFile, lines 938-945, on OutFile.
ReadTextFile(d, readFails) ==
    LET fault == ReadFileFault(d, readFails) IN
    IF fault # NoError
    THEN [disk |-> d, out |-> Thrown(ReadTextError(OutFile, fault), fault)]
    ELSE [disk |-> d, out |-> Completed(d.file.text)]

\* fileToGenerativePath, lines 964-977, on OutFile.
FileToGenerativePath(d, readFails) ==
    LET fault == ReadFileFault(d, readFails) IN
    IF fault # NoError
    THEN [disk |-> d, out |-> Thrown(GenerativePathError(fault), fault)]
    ELSE [disk |-> d,
          out |-> Completed([data |-> Base64(d.file.text),
                             mimeType |-> MimeType(OutFileName)])]

\* saveBufferToFile, lines 887-907, given `filedata` to store at OutFile.
\* The hash and the size are taken before the try (lines 888-889): what
\* they throw rejects the call as it is.
SaveBufferToFile(d, filedata, mkdirFails, write) ==
    LET hash == CalculateHashByBuffer(Buf(filedata.bytes))
        size == CalculateSizeByBuffer(Buf(filedata.bytes))
        made == Mkdir(d, mkdirFails)
    IN IF hash.status = "thrown"
       THEN [disk |-> d, out |-> Thrown(hash.error, hash.error)]
       ELSE IF size.status = "thrown"
       THEN [disk |-> d, out |-> Thrown(size.error, size.error)]
       ELSE IF made.out.status = "thrown"
       THEN [disk |-> made.disk,
             out |-> Thrown(SaveBufferError(made.out.error), made.out.error)]
       ELSE IF write # "written"
       THEN [disk |-> AfterWrite(made.disk, filedata.bytes, write),
             out |-> Thrown(SaveBufferError(WriteFault(OutFile)), WriteFault(OutFile))]
       ELSE [disk |-> AfterWrite(made.disk, filedata.bytes, write),
             out |-> Completed([filehash |-> hash.value, filesize |-> size.value,
                                mimeType |-> MimeType(OutFileName),
                                inlineData |-> Base64(filedata.bytes)])]

\* downloadFile validating the body before it writes the file.
DownloadFileValidatesFirst(d, body, fetchFails, write) ==
    LET hash == CalculateHashByBuffer(Buf(body))
        size == CalculateSizeByBuffer(Buf(body))
    IN IF fetchFails
       THEN [disk |-> d, wrote |-> FALSE, out |-> Thrown(DownloadError(FetchFault), FetchFault)]
       ELSE IF hash.status = "thrown"
       THEN [disk |-> d, wrote |-> FALSE,
             out |-> Thrown(DownloadError(hash.error), hash.error)]
       ELSE IF ~d.dir
       THEN [disk |-> d, wrote |-> FALSE,
             out |-> Thrown(DownloadError(NoEntFault(OutFile)), NoEntFault(OutFile))]
       ELSE IF write # "written"
       THEN [disk |-> AfterWrite(d, body, write), wrote |-> FALSE,
             out |-> Thrown(DownloadError(WriteFault(OutFile)), WriteFault(OutFile))]
       ELSE [disk |-> AfterWrite(d, body, write), wrote |-> TRUE,
             out |-> Completed([filehash |-> hash.value, filesize |-> size.value,
                                mimeType |-> MimeType(OutFileName),
                                inlineData |-> Base64(body)])]

\* IOF.downloadFile, lines 913-931, fetching FileUri, whose body is `body`,
\* to save it in OutDir. Line 919 writes the file; the hash and the size are
\* taken after it, at lines 923-924. `wrote` says that writeFileSync returned.
DownloadFile(d, body, fetchFails, write) ==
    LET hash == CalculateHashByBuffer(Buf(body))
        size == CalculateSizeByBuffer(Buf(body))
    IN IF fetchFails
       THEN [disk |-> d, wrote |-> FALSE, out |-> Thrown(DownloadError(FetchFault), FetchFault)]
       ELSE IF ~d.dir
       THEN [disk |-> d, wrote |-> FALSE,
             out |-> Thrown(DownloadError(NoEntFault(OutFile)), NoEntFault(OutFile))]
       ELSE IF write # "written"
       THEN [disk |-> AfterWrite(d, body, write), wrote |-> FALSE,
             out |-> Thrown(DownloadError(WriteFault(OutFile)), WriteFault(OutFile))]
       ELSE IF hash.status = "thrown"
       THEN [disk |-> AfterWrite(d, body, write), wrote |-> TRUE,
             out |-> Thrown(DownloadError(hash.error), hash.error)]
       ELSE IF size.status = "thrown"
       THEN [disk |-> AfterWrite(d, body, write), wrote |-> TRUE,
             out |-> Thrown(DownloadError(size.error), size.error)]
       ELSE [disk |-> AfterWrite(d, body, write), wrote |-> TRUE,
             out |-> Completed([filehash |-> hash.value, filesize |-> size.value,
                                mimeType |-> MimeType(OutFileName),
                                inlineData |-> Base64(body)])]

\* What is kept of a call of one of the operations: `target` is the path
\* the caller names, `before` the disk as the call found it.
FileOp(op, target, input, r) ==
    [op |-> op, target |-> target, input |-> input, before |-> disk,
     wrote |-> IF "wrote" \in DOMAIN r THEN r.wrote ELSE FALSE,
     out |-> r.out]

MkdirCall ==
    /\ \E mkdirFails \in BOOLEAN :
          LET r == Mkdir(disk, mkdirFails) IN
          /\ disk' = r.disk
          /\ util' = FileOp("mkdir", OutDir, NoValue, r)
    /\ UNCHANGED <<terminals, instance, env, watch>>
    /\ UNCHANGED storeVars
    /\ UNCHANGED loggerVars

RmCall ==
    /\ \E rmFails \in BOOLEAN :
          LET r == Rm(disk, rmFails) IN
          /\ disk' = r.disk
          /\ util' = FileOp("rm", OutDir, NoValue, r)
    /\ UNCHANGED <<terminals, instance, env, watch>>
    /\ UNCHANGED storeVars
    /\ UNCHANGED loggerVars

ReadTextFileCall ==
    /\ \E readFails \in BOOLEAN :
          LET r == ReadTextFile(disk, readFails) IN
          /\ disk' = r.disk
          /\ util' = FileOp("readTextFile", OutFile, NoValue, r)
    /\ UNCHANGED <<terminals, instance, env, watch>>
    /\ UNCHANGED storeVars
    /\ UNCHANGED loggerVars

FileToGenerativePathCall ==
    /\ \E readFails \in BOOLEAN :
          LET r == FileToGenerativePath(disk, readFails) IN
          /\ disk' = r.disk
          /\ util' = FileOp("fileToGenerativePath", OutFile, NoValue, r)
    /\ UNCHANGED <<terminals, instance, env, watch>>
    /\ UNCHANGED storeVars
    /\ UNCHANGED loggerVars

SaveBufferToFileCall(filedata) ==
    /\ \E mkdirFails \in BOOLEAN, write \in WriteOutcomes :
          LET r == SaveBufferToFile(disk, filedata, mkdirFails, write) IN
          /\ disk' = r.disk
          /\ util' = FileOp("saveBufferToFile", OutFile, filedata, r)
    /\ UNCHANGED <<terminals, instance, env, watch>>
    /\ UNCHANGED storeVars
    /\ UNCHANGED loggerVars

DownloadFileCall(body) ==
    /\ \E fetchFails \in BOOLEAN, write \in WriteOutcomes :
          LET r == DownloadFile(disk, body, fetchFails, write) IN
          /\ disk' = r.disk
          /\ util' = FileOp("downloadFile", OutFile, Buf(body), r)
    /\ UNCHANGED <<terminals, instance, env, watch>>
    /\ UNCHANGED storeVars
    /\ UNCHANGED loggerVars

\* ---- IOF.watcher

\* The events chokidar reports, of which the caller subscribes to one.
EventKinds == {"add", "change"}

NoWatch == [started |-> FALSE]

\* IOF.watcher, lines 780-795: the subscription to `event`, with the
\* caller's handler or without one. `events` are the events reported since,
\* oldest first; `invoked` are the positions of those the handler has been
\* invoked for, `running` those whose invocation has not settled yet.
Watching(event, hasHandler) ==
    [started |-> TRUE, event |-> event, onEvent |-> hasHandler,
     events |-> <<>>, invoked |-> {}, running |-> {}]

WatcherCall(event, hasHandler) ==
    /\ ~watch.started
    /\ watch' = Watching(event, hasHandler)
    /\ UNCHANGED <<util, terminals, instance, env, disk>>
    /\ UNCHANGED storeVars
    /\ UNCHANGED loggerVars

\* chokidar emits an event of `kind`: the emitter calls the listener of
\* line 784 if the kind is the subscribed one, and goes on as soon as the
\* listener returns its promise; the listener is suspended at the await of
\* line 786 once it has invoked the handler.
FsEvent(kind) ==
    /\ watch.started
    /\ Len(watch.events) < MaxEvents
    /\ LET n == Len(watch.events) + 1
           calls == kind = watch.event /\ watch.onEvent
       IN watch' = [watch EXCEPT !.events = Append(@, kind),
                                 !.invoked = IF calls THEN @ \cup {n} ELSE @,
                                 !.running = IF calls THEN @ \cup {n} ELSE @]
    /\ UNCHANGED <<util, terminals, instance, env, disk>>
    /\ UNCHANGED storeVars
    /\ UNCHANGED loggerVars

\* The promise the handler returned for the event at position `n` settles.
HandlerSettled(n) ==
    /\ watch.started
    /\ n \in watch.running
    /\ watch' = [watch EXCEPT !.running = @ \ {n}]
    /\ UNCHANGED <<util, terminals, instance, env, disk>>
    /\ UNCHANGED storeVars
    /\ UNCHANGED loggerVars

IoInit ==
    /\ disk = [dir |-> FALSE, file |-> NoFile]
    /\ watch = NoWatch

UtilInit ==
    /\ util = NoUtil
    /\ terminals = Constructed({})
    /\ instance = NoInstance
    /\ env = <<>>

vars == <<dirExists, file, pc, call, result, hist, showFunctionName, frames, logged,
          util, terminals, instance, env, disk, watch>>

StoreInit ==
    /\ \/ dirExists = FALSE /\ file = NoFile
       \/ dirExists = TRUE /\ file \in InitialFiles \cup {NoFile}
    /\ pc = [p \in Procs |-> "idle"]
    /\ call = [p \in Procs |-> NoCall]
    /\ result = NoResult
    /\ hist = NoHist

Init == StoreInit /\ LoggerInit /\ UtilInit /\ IoInit

\* The logger's application, which leaves the store alone.
InitLogger == LoggerInit /\ StoreInit /\ UtilInit /\ IoInit /\ ~dirExists

\* One caller issuing its store calls one after the other.
Next ==
    \/ \E data \in DataInputs, overwrite \in BOOLEAN : WriteCall(1, data, overwrite)
    \/ WriteAfterRead(1)
    \/ WriteDone(1)
    \/ ReadCall(1)
    \/ ReadDone(1)

Spec == Init /\ [][Next]_vars

\* Two callers whose calls on the store path may overlap.
NextRace ==
    \E p \in Procs :
       \/ \E data \in RaceInputs, overwrite \in BOOLEAN : WriteCall(p, data, overwrite)
       \/ WriteAfterRead(p)
       \/ WriteDone(p)
       \/ ReadCall(p)
       \/ ReadDone(p)

SpecRace == Init /\ [][NextRace]_vars

\* An application that logs from its functions and sets the flag.
NextLogger ==
    \/ \E api \in LevelMethods, forced \in BOOLEAN, args \in ArgLists,
          style \in EngineStyles, now \in Times :
          LogCall(api, forced, args, style, now)
    \/ \E opt \in CustomOpts, forced \in BOOLEAN, args \in ArgLists,
          style \in EngineStyles, now \in Times :
          CustomCall(opt, forced, args, style, now)
    \/ LogSettled
    \/ \E b \in BOOLEAN : SetShowFunctionName(b)
    \/ \E kind \in FrameKinds : EnterFunction(kind)
    \/ LeaveFunction

SpecLogger == InitLogger /\ [][NextLogger]_vars

\* An application calling the pure utilities.
NextPure ==
    \/ \E fileName \in FileNames : MimeTypeCall(fileName)
    \/ \E buffer \in BufferInputs : HashCall(buffer)
    \/ \E buffer \in BufferInputs : SizeCall(buffer)
    \/ \E input \in DateInputs : ParseDateCall(input)

SpecPure == InitLogger /\ [][NextPure]_vars

\* An application constructing Terminals, asking for the instance, setting
\* its environment and calling envParser.
NextTerminal ==
    \/ NewTerminal
    \/ \E t \in 1..MaxTerminals : GetInstance(t)
    \/ \E key \in EnvNames, value \in EnvValues : SetEnv(key, value)
    \/ \E key \in EnvNames : DeleteEnv(key)
    \/ \E t \in 1..MaxTerminals, prefix \in Prefixes : EnvParserCall(t, prefix)

SpecTerminal == InitLogger /\ [][NextTerminal]_vars

\* An application working on OutDir and OutFile with the file operations.
NextFiles ==
    \/ MkdirCall
    \/ RmCall
    \/ ReadTextFileCall
    \/ FileToGenerativePathCall
    \/ \E filedata \in Buffers : SaveBufferToFileCall(filedata)
    \/ \E body \in SeqsUpTo(ByteValues, MaxBytes) : DownloadFileCall(body)

SpecFiles == InitLogger /\ [][NextFiles]_vars

\* An application that starts the watcher, and the events that follow.
NextWatcher ==
    \/ \E event \in EventKinds, hasHandler \in BOOLEAN : WatcherCall(event, hasHandler)
    \/ \E kind \in EventKinds : FsEvent(kind)
    \/ \E n \in 1..MaxEvents : HandlerSettled(n)

SpecWatcher == InitLogger /\ [][NextWatcher]_vars

\* ------------------------------------------------------ the store's claims

\* The value a file holds: what JSON.parse makes of its text.
Holds(f, v) == f.exists /\ JSONparse(f.text) = [ok |-> TRUE, val |-> v]

\* The latest step settled a writeJSONFile call that had read the file.
SettledAppend == result.op = "write" /\ ~result.overwrite /\ result.existed /\ result.didRead

\* C1: a writeJSONFile call that succeeds with overwrite=true, or on a path
\* with no file, leaves a file holding exactly the data normalized to an
\* array: [d] for a value d that is no array, the array itself otherwise.
C1_OverwriteOrCreateHoldsNormalizedData ==
    (result.op = "write" /\ result.status = "ok"
        /\ (result.overwrite \/ ~result.existed))
    => Holds(file, IF result.data.t = "arr" THEN result.data ELSE Arr(<<result.data>>))

\* C1 witness: an overwrite with a two-element array over a file that held
\* other entries.
C1_Witness ==
    /\ result.op = "write" /\ result.status = "ok" /\ result.overwrite
    /\ result.data = Arr(<<ObjA2, ObjY2>>)
    /\ Holds(result.before, Arr(<<ObjA1>>))
    /\ Holds(file, Arr(<<ObjA2, ObjY2>>))

\* C2: a successful writeJSONFile call with overwrite=false on a file whose
\* root is the array E leaves E followed by the new entries in the order
\* given.
C2_AppendKeepsExistingThenNew ==
    (SettledAppend /\ result.status = "ok"
        /\ JSONparse(result.readText).ok /\ JSONparse(result.readText).val.t = "arr")
    => Holds(file, Arr(JSONparse(result.readText).val.items
                          \o (IF result.data.t = "arr" THEN result.data.items
                              ELSE <<result.data>>)))

\* C2 witness: [{a:1}] extended by [{a:2},{y:2}].
C2_Witness ==
    /\ SettledAppend /\ result.status = "ok"
    /\ Holds(FileOf(result.readText), Arr(<<ObjA1>>))
    /\ result.data = Arr(<<ObjA2, ObjY2>>)
    /\ Holds(file, Arr(<<ObjA1, ObjA2, ObjY2>>))

\* C3: after a successful overwrite followed by successful appends, none
\* overlapping another write call, readJSONFile returns the entries of all
\* those calls in call order.
C3_ReadReturnsRunInCallOrder ==
    (result.op = "read" /\ result.didRead /\ result.seen.valid)
    => (result.status = "ok" /\ result.value = Arr(result.seen.items))

\* C3 witness: overwrite [{a:1}], append [{a:2}], read [{a:1},{a:2}].
C3_Witness ==
    /\ result.op = "read" /\ result.status = "ok" /\ result.seen.valid
    /\ result.value = Arr(<<ObjA1, ObjA2>>)
    /\ hist.valid /\ hist.items = <<ObjA1, ObjA2>>

C5_AppendOntoNonArrayThrows ==
    (SettledAppend /\ JSONparse(result.readText).ok
        /\ JSONparse(result.readText).val.t # "arr")
    => result.status = "error"

\* C6: readJSONFile on a path with no file rejects with the not-found error,
\* returns nothing, and leaves the file system as it was.
C6_ReadMissingFileFails ==
    [][\A p \in Procs :
         (~file.exists /\ ReadCall(p))
         => /\ result'.op = "read" /\ result'.status = "error"
            /\ result'.value = NoValue
            /\ result'.error.message =
                  <<"Failed to read JSON from ", FilePath, ": ",
                    "File not found: ", FilePath>>
            /\ file' = file /\ dirExists' = dirExists
            /\ pc'[p] = "idle"]_vars

\* C6 witness: a read of a missing file has just been rejected.
C6_Witness ==
    /\ result.op = "read" /\ ~result.existed /\ result.status = "error"
    /\ ~file.exists

\* C7: readJSONFile on a file whose parsed root is no array rejects with
\* the malformed-content error and returns nothing.
C7_ReadNonArrayFails ==
    (result.op = "read" /\ result.didRead
        /\ JSONparse(result.readText).ok /\ JSONparse(result.readText).val.t # "arr")
    => /\ result.status = "error"
       /\ result.value = NoValue
       /\ result.error.message =
             <<"Failed to read JSON from ", FilePath, ": ",
               "File content is not an array: ", FilePath>>

\* C7 witness: {"x":1} read.
C7_Witness ==
    /\ result.op = "read" /\ result.status = "error"
    /\ Holds(FileOf(result.readText), ObjX1)

IsSuffix(s, t) ==
    Len(s) <= Len(t) /\ SubSeq(t, Len(t) - Len(s) + 1, Len(t)) = s

\* C8: whatever fails inside writeJSONFile (creating the directory, reading
\* or parsing the existing file, writing), the call rejects with one kind of
\* error: an Error whose message is "Failed to write JSON to <path>: "
\* followed by the message of the error caught, the fault's own message
\* included.
C8_WriteFailuresAreWrapped ==
    result.op = "write"
    => /\ result.status \in {"ok", "error"}
       /\ result.status = "error"
          => /\ result.error.name = "Error"
             /\ result.error.message =
                   <<"Failed to write JSON to ", FilePath, ": ">> \o result.cause.message
             /\ IsSuffix(result.fault.message, result.error.message)
             /\ result.fault \in {MkdirFault(DirName(FilePath)), ReadFault(FilePath),
                                  ParseFault, WriteFault(FilePath)}

\* C8 witness: an append onto text that is not JSON has been rejected.
C8_Witness ==
    /\ result.op = "write" /\ result.status = "error"
    /\ result.fault = ParseFault
    /\ result.error.message =
          <<"Failed to write JSON to ", FilePath, ": ", "Unexpected token in JSON">>

\* C9: nothing serializes the read-modify-write of overlapping appends: a
\* successful append that read before another call's successful write and
\* wrote after it leaves what it had read followed by its own data, whatever
\* the other call wrote.
C9_StaleAppendWritesWhatItRead ==
    (SettledAppend /\ result.status = "ok" /\ result.staleBy # NoValue)
    => /\ result.overlap
       /\ Holds(file, Arr((IF JSONparse(result.readText).val.t = "arr"
                           THEN JSONparse(result.readText).val.items ELSE <<>>)
                          \o (IF result.data.t = "arr" THEN result.data.items
                              ELSE <<result.data>>)))

\* C9 witness: a lost update.  Two overlapping appends both succeeded and
\* the file holds no entry of the one that wrote first.
C9_Witness ==
    /\ SettledAppend /\ result.status = "ok" /\ result.staleBy # NoValue
    /\ result.staleBy.items # <<>>
    /\ JSONparse(file.text).ok
    /\ \A i \in 1..Len(result.staleBy.items) :
          \A j \in 1..Len(JSONparse(file.text).val.items) :
             JSONparse(file.text).val.items[j] # result.staleBy.items[i]

\* ----------------------------------------------------- the logger's claims

\* C10: the message of the record a logger call returns is the argument
\* itself when one was given, the list of the arguments in order when more
\* than one was given, and the empty string when none was given; this for
\* every level method, custom, and their pfn variants.
C10_MessageKeepsArgumentShape ==
    (logged # NoLog /\ logged.out.status = "returned")
    => logged.out.record.message =
          (IF Len(logged.args) = 1 THEN logged.args[1]
           ELSE IF Len(logged.args) > 1 THEN [t |-> "arr", items |-> logged.args]
           ELSE [t |-> "str", s |-> ""])

\* C10 witness: pfn.custom given an object and a string, returning the two
\* as they were given while the console line holds their renderings.
C10_Witness ==
    /\ logged # NoLog /\ logged.api = "custom" /\ logged.forced
    /\ logged.args = <<ObjA1, Str("hello")>>
    /\ logged.out.status = "returned"
    /\ logged.out.record.message = Arr(<<ObjA1, Str("hello")>>)
    /\ logged.out.console.message = <<"{", Q, "a", Q, ":", "1", "}", " ", "hello">>

\* The call just made returned a record.
Returned == logged # NoLog /\ logged.out.status = "returned"

\* The caller annotation that goes with the caller tag of a record.
TagOf(pfn) == IF pfn = <<>> THEN <<>> ELSE <<"f", "n", ":", " ">> \o pfn

\* C11: the console line of a plain call carries a caller annotation only
\* if showFunctionName was true at the call, and none otherwise; the console
\* line of a pfn call carries the annotation computed from the stack
\* whatever the flag.
C11_AnnotationByFlagOrForced ==
    Returned
    => /\ (~logged.forced /\ ~logged.flag) => logged.out.console.caller = <<>>
       /\ (~logged.forced /\ logged.out.console.caller # <<>>) => logged.flag
       /\ logged.forced => logged.out.console.caller = TagOf(logged.out.record.pfn)
       /\ (logged.forced /\ frames # <<>> /\ frames[1] = "named")
          => logged.out.console.caller # <<>>

\* C11 witness: pfn.warn from handleRequest with the flag off, annotated.
C11_Witness ==
    /\ Returned /\ logged.forced /\ logged.api = "warn" /\ ~logged.flag
    /\ frames = <<"named">>
    /\ logged.out.console.caller \in
          { <<"f", "n", ":", " ", "h", "a", "n", "d", "l", "e", "R", "e", "q", "u", "e", "s", "t">>,
            <<"f", "n", ":", " ", "w", "a", "r", "n">> }

\* C12: the caller tag of the record is non-empty for every pfn call made
\* from a named function, and empty for every plain call made while
\* showFunctionName is false.
C12_RecordTagByFlagOrForced ==
    Returned
    => /\ (logged.forced /\ frames # <<>> /\ frames[1] = "named")
          => logged.out.record.pfn # <<>>
       /\ (~logged.forced /\ ~logged.flag) => logged.out.record.pfn = <<>>

\* C13: showFunctionName is false at process start; no logger call writes
\* it; the annotation of a plain call is decided by the flag as it is when
\* the call is made; and an assignment to the flag leaves the record of the
\* call already made as it was.
C13_FlagOnlyActsOnLaterCalls ==
    /\ showFunctionName = FALSE
    /\ [][/\ (logged = NoLog /\ logged' # NoLog)
             => /\ showFunctionName' = showFunctionName
                /\ logged'.flag = showFunctionName
                /\ (~logged'.forced /\ logged'.out.status = "returned")
                   => (logged'.out.console.caller # <<>> => showFunctionName)
          /\ (showFunctionName' # showFunctionName) => logged' = logged]_vars

\* C13 witness: the flag is on while the application holds the record of a
\* plain call made with the flag off, unannotated.
C13_Witness ==
    /\ Returned /\ ~logged.forced /\ ~logged.flag /\ showFunctionName
    /\ frames = <<"named">>
    /\ logged.out.console.caller = <<>>

\* C14: no logger call raises: every call returns a record.
C14_NoLoggerCallRaises ==
    logged # NoLog => logged.out.status = "returned"

\* -------------------------------------------------- the utilities' claims

HasDot(name) == \E i \in 1..Len(name) : name[i] = "."

\* The extension of a name that holds a dot: what follows its last dot.
ExtensionOf(name) ==
    LET k == CHOOSE i \in 1..Len(name) :
                name[i] = "." /\ \A j \in (i + 1)..Len(name) : name[j] # "."
    IN SubSeq(name, k + 1, Len(name))

\* The table's MIME string for an extension it holds.
TableMime(ext) == (CHOOSE row \in MimeTable : row.ext = ext).mime

\* C15: mimeType returns the table's MIME string for a name whose extension
\* is in the table, and application/octet-stream for a name whose extension
\* is not in the table and for a name with no extension at all (no dot).
C15_TableOrOctetStream ==
    util.op = "mimeType"
    => IF HasDot(util.fileName) /\ ExtensionOf(util.fileName) \in TableExts
       THEN util.value = TableMime(ExtensionOf(util.fileName))
       ELSE util.value = "application/octet-stream"

\* C16: mimeType looks the extension up lowercased: a name with a dot gets
\* the MIME string of its extension in lower case.
C16_ExtensionCaseIgnored ==
    (util.op = "mimeType" /\ HasDot(util.fileName))
    => IF ToLowerCase(ExtensionOf(util.fileName)) \in TableExts
       THEN util.value = TableMime(ToLowerCase(ExtensionOf(util.fileName)))
       ELSE util.value = "application/octet-stream"

\* C17: calculateHashByBuffer and calculateSizeByBuffer throw the
\* validation error for a value that is no Buffer and for the empty buffer,
\* and return only for a buffer of at least one byte, the size returned
\* being its length in bytes.
C17_BufferValidated ==
    util.op \in {"calculateHashByBuffer", "calculateSizeByBuffer"}
    => IF util.input.t = "buffer" /\ Len(util.input.bytes) >= 1
       THEN /\ util.out.status = "returned"
            /\ util.op = "calculateSizeByBuffer"
               => (util.out.value = Len(util.input.bytes) /\ util.out.value >= 1)
       ELSE /\ util.out.status = "thrown"
            /\ util.out.error.name = "Error"
            /\ util.out.error.message =
                  (IF util.input.t = "buffer" THEN <<"Buffer cannot be empty">>
                   ELSE <<"Input must be a Buffer">>)

\* C17 witness: the size of the empty buffer was refused.
C17_Witness ==
    /\ util.op = "calculateSizeByBuffer" /\ util.input = Buf(<<>>)
    /\ util.out.status = "thrown"
    /\ util.out.error.message = <<"Buffer cannot be empty">>

\* Valid ISO strings with the time value each denotes.
IsoExamples ==
    { [s |-> <<"1", "9", "7", "0", "-", "0", "1", "-", "0", "1">>, day |-> 0, ms |-> 0],
      [s |-> <<"2", "0", "2", "4", "-", "0", "2", "-", "2", "9">>, day |-> 19782, ms |-> 0],
      [s |-> <<"1", "9", "7", "0", "-", "0", "1", "-", "0", "1", "T", "0", "0", ":", "0", "0", ":", "0", "1", "Z">>, day |-> 0, ms |-> 1000],
      [s |-> <<"2", "0", "2", "4", "-", "0", "2", "-", "2", "9", "T", "2", "3", ":", "5", "9", ":", "5", "9", "Z">>, day |-> 19782, ms |-> 86399000] }

\* C18: parseDate returns a valid date for a valid ISO string, a valid Date
\* and a number that denotes a representable instant, and throws, never
\* returning an invalid date, for an unparseable string, an invalid Date, a
\* number that denotes no representable instant, and a value of any other
\* type.
C18_ParseDateValidOrThrows ==
    util.op = "parseDate"
    => LET in == util.input
           out == util.out
       IN /\ out.status \in {"returned", "thrown"}
          /\ out.status = "returned"
             => (out.value.t = "date" /\ "nan" \notin DOMAIN out.value.time)
          /\ out.status = "thrown" => out.error.name = "Error"
          /\ (in.t = "str" /\ \E e \in IsoExamples : e.s = in.s)
             => /\ out.status = "returned"
                /\ \E e \in IsoExamples :
                      e.s = in.s /\ out.value.time = [day |-> e.day, ms |-> e.ms]
          /\ (in.t = "date" /\ "nan" \notin DOMAIN in.time)
             => (out.status = "returned" /\ out.value = in)
          /\ (in.t = "num" /\ "special" \notin DOMAIN in
                /\ in.day >= -100000000
                /\ (in.day < 100000000 \/ (in.day = 100000000 /\ in.ms = 0)))
             => (out.status = "returned"
                   /\ out.value.time = [day |-> in.day, ms |-> in.ms])
          /\ (in.t = "str" /\ in.s = <<"n", "o", "t", "-", "a", "-", "d", "a", "t", "e">>)
             => out.status = "thrown"
          /\ (in.t = "date" /\ "nan" \in DOMAIN in.time) => out.status = "thrown"
          /\ (in.t = "num" /\ ("special" \in DOMAIN in \/ in.day > 100000000
                                \/ (in.day = 100000000 /\ in.ms > 0)
                                \/ in.day < -100000000))
             => out.status = "thrown"
          /\ in.t \notin {"str", "date", "num"} => out.status = "thrown"

\* C18 witness: the leap day 2024-02-29 parsed to its day number.
C18_Witness ==
    /\ util.op = "parseDate" /\ util.input.t = "str"
    /\ util.input.s = <<"2", "0", "2", "4", "-", "0", "2", "-", "2", "9">>
    /\ util.out.status = "returned"
    /\ util.out.value.time = [day |-> 19782, ms |-> 0]

\* C19: at every point exactly one readline interface exists in the
\* process, and the instance getInstance returns is the exported terminal.
C19_OneReadlineInterface ==
    /\ Cardinality(ReadlineInterfaces) = 1
    /\ util.op = "getInstance" => util.value = 1

\* C20: envParser(prefix) returns keys and values of equal length, keys
\* being exactly the names of the environment that start with prefix, one
\* whose value is the empty string included, and values[i] the value of
\* keys[i].
C20_EnvParserReturnsEveryPrefixedName ==
    util.op = "envParser"
    => LET keys == util.value.keys
           values == util.value.values
       IN /\ Len(keys) = Len(values)
          /\ {keys[i] : i \in 1..Len(keys)}
                = {env[i].key : i \in {j \in 1..Len(env) :
                       /\ Len(util.prefix) <= Len(env[j].key)
                       /\ SubSeq(env[j].key, 1, Len(util.prefix)) = util.prefix}}
          /\ \A i \in 1..Len(keys) :
                \E j \in 1..Len(env) : env[j].key = keys[i] /\ env[j].value = values[i]

\* --------------------------------------------- the logger's further claims

\* The color of a log line by the method called, the four level colors the
\* claim and the code agree on.
LevelColorsAgreed ==
    /\ logged.api = "debug" => logged.out.console.color = TerminalColor("MAGENTA")
    /\ logged.api = "error" => logged.out.console.color = TerminalColor("RED")
    /\ logged.api = "info" => logged.out.console.color = TerminalColor("BLUE")
    /\ logged.api = "success" => logged.out.console.color = TerminalColor("GREEN")
    /\ (logged.api = "custom" /\ logged.opt.color # "")
       => logged.out.console.color = TerminalColor(logged.opt.color)
    /\ (logged.api = "custom" /\ logged.opt.color = "")
       => logged.out.console.color = TerminalColor("CYAN")

\* C22 as stated: the level colors of the table, with the bright yellow
\* background (BBRIGHT_YELLOW, ESC[103m) for WARN.
C22_WarnUsesBrightYellowBackground ==
    Returned
    => /\ LevelColorsAgreed
       /\ logged.api = "warn" => logged.out.console.color = TerminalColor("BBRIGHT_YELLOW")

\* C22: the color of a log line comes from a fixed table: DEBUG magenta,
\* WARN the yellow background (BYELLOW, ESC[43m, not a bright color), ERROR
\* red, INFO blue, SUCCESS green; a custom call uses the color its options
\* name and cyan when they name none.
C22_ColorByLevelTable ==
    Returned
    => /\ LevelColorsAgreed
       /\ logged.api = "warn"
          => /\ logged.out.console.color = TerminalColor("BYELLOW")
             /\ logged.out.console.color = "ESC[43m"

\* C22 witness: a warn call has printed its line on the yellow background.
C22_Witness ==
    /\ Returned /\ logged.api = "warn"
    /\ logged.out.console.color = "ESC[43m"
    /\ logged.out.console.color # TerminalColor("BBRIGHT_YELLOW")

\* The application's frames a tag can be taken from, innermost first: all
\* but the module's top-level code, which is a module-loading frame.
UsableFrames == SelectSeq(frames, LAMBDA kind : kind # "topLevel")

\* The tags the claim allows for a frame of the application.
TagsOfFrame(kind) ==
    CASE kind = "named" -> {<<"f", "n", ":", " ", "h", "a", "n", "d", "l", "e", "R", "e", "q", "u", "e", "s", "t">>}
      [] kind = "method" -> {<<"f", "n", ":", " ", "r", "u", "n">>,
                             <<"f", "n", ":", " ", "S", "e", "r", "v", "i", "c", "e", ".", "r", "u", "n">>}
      [] kind = "anonymousCall" -> {<<"f", "n", ":", " ", "<", "a", "n", "o", "n", "y", "m", "o", "u", "s", ">">>}

\* C23: a call that asks for the caller's name gets the tag of the first
\* usable frame of the application, the logger's own frames skipped: the
\* frame's name after "fn: " if it has one, a Class.method frame included,
\* "fn: <anonymous>" if it has none, and the empty annotation only if the
\* application has no usable frame.
C23_FirstUsableFrameIsReported ==
    (Returned /\ logged.forced)
    => IF UsableFrames = <<>>
       THEN logged.out.console.caller = <<>>
       ELSE logged.out.console.caller \in TagsOfFrame(UsableFrames[1])

\* ------------------------------------------------ the file operations' claims

FileOps == {"mkdir", "rm", "readTextFile", "fileToGenerativePath",
            "saveBufferToFile", "downloadFile"}

\* The latest step was a call of one of the file operations that threw.
FileOpThrew == util.op \in FileOps /\ util.out.status = "thrown"

\* C21: whatever fails inside a file operation is caught by the operation
\* and re-reported: the error thrown is not the error caught but a new
\* Error whose message names the target path and ends with the message of
\* the error caught.
C21_FaultsWrappedWithPathAndCause ==
    FileOpThrew
    => /\ util.out.error # util.out.cause
       /\ util.out.error.name = "Error"
       /\ \E i \in 1..Len(util.out.error.message) :
             util.out.error.message[i] = util.target
       /\ IsSuffix(util.out.cause.message, util.out.error.message)

\* The input-validation error for an empty buffer (lines 858 and 872).
EmptyBufferError == Err("Error", <<"Buffer cannot be empty">>)

\* C29: saveBufferToFile given empty file data throws the validation error
\* and leaves the disk as it found it, no directory created and no file
\* written. downloadFile given an empty body throws as well, and when it is
\* the validation that failed, the write had been done before it: an empty
\* file lies at the destination.
C29_EmptyDataSaveLeavesNothingDownloadLeavesFile ==
    /\ (util.op = "saveBufferToFile" /\ util.input.bytes = <<>>)
       => /\ util.out.status = "thrown"
          /\ util.out.error = EmptyBufferError
          /\ disk = util.before
    /\ (util.op = "downloadFile" /\ util.input.bytes = <<>>)
       => /\ util.out.status = "thrown"
          /\ util.out.cause = EmptyBufferError
             => /\ util.wrote
                /\ disk.file = FileOf(<<>>)
                /\ util.out.error = DownloadError(EmptyBufferError)

\* C29 witness: downloadFile of an empty body into an existing directory that
\* held no file has thrown for the empty buffer and left an empty file.
C29_Witness ==
    /\ util.op = "downloadFile" /\ util.input.bytes = <<>>
    /\ util.out.status = "thrown" /\ util.out.cause = EmptyBufferError
    /\ util.before = [dir |-> TRUE, file |-> NoFile]
    /\ disk.file = FileOf(<<>>)

\* ------------------------------------------------------ the watcher's claim

\* C25: the handler is invoked exactly once for every event of the
\* subscribed kind and for no other, and never while the invocation for an
\* earlier event has not settled: at most one invocation is running.
C25_HandlerOncePerEventNeverOverlapping ==
    (watch.started /\ watch.onEvent)
    => /\ watch.invoked = {n \in 1..Len(watch.events) : watch.events[n] = watch.event}
       /\ Cardinality(watch.running) <= 1

\* ---------------------------------------------- the store's further claims

\* The root of the JSON text in the file `f` is an array.
RootIsArray(f) ==
    f.exists /\ JSONparse(f.text).ok /\ IsArray(JSONparse(f.text).val)

\* The file `f` holds text that is not JSON.
Unparseable(f) == f.exists /\ ~JSONparse(f.text).ok

\* C24: the file is written only with its parent directory in place: a call
\* past its synchronous part, which is to read or to write the file, has
\* the directory, made by the call if it was missing; a call that found it
\* missing and could not make it fails on that and the write is not begun.
C24_DirectoryBeforeWrite ==
    /\ \A p \in Procs : pc[p] \in {"w_read", "w_write"} => dirExists
    /\ (result.op = "write" /\ result.status = "ok") => dirExists
    /\ (result.op = "write" /\ ~dirExists)
       => /\ result.dirMissing
          /\ result.status = "error"
          /\ result.fault = MkdirFault(DirName(FilePath))
          /\ ~file.exists

\* C24 witness: an append that found no directory has made it and has
\* written the file.
C24_Witness ==
    /\ result.op = "write" /\ result.status = "ok"
    /\ result.dirMissing /\ ~result.overwrite
    /\ dirExists /\ file.exists

\* C26: a writeJSONFile call that succeeds leaves a file whose root is an
\* array, whatever was there and whatever the mode and the data; and a
\* readJSONFile of a file whose root is an array does not fail over its
\* content (only a fault of the read itself can fail it).
C26_RootStaysArray ==
    /\ (result.op = "write" /\ result.status = "ok") => RootIsArray(file)
    /\ (result.op = "read" /\ RootIsArray(file))
       => \/ result.status = "ok" /\ result.value = JSONparse(file.text).val
          \/ result.status = "error" /\ result.cause = ReadFault(FilePath)

\* C26 witness: a single record has been appended to a file that held a
\* JSON object, and the file holds an array.
C26_Witness ==
    /\ SettledAppend /\ result.status = "ok"
    /\ JSONparse(result.readText).ok /\ ~IsArray(JSONparse(result.readText).val)
    /\ ~IsArray(result.data)
    /\ RootIsArray(file)

\* C27: an append rejected because the text of the file does not parse
\* leaves the file as it was: same text, the one the call read.
C27_FailedParseLeavesFile ==
    (result.op = "write" /\ result.status = "error" /\ result.fault = ParseFault)
    => /\ ~result.overwrite /\ result.didRead
       /\ file = result.before
       /\ file = FileOf(result.readText)
       /\ Unparseable(file)

\* C27 witness: the append of a record onto text that is not JSON has been
\* rejected and the text is still there.
C27_Witness ==
    /\ result.op = "write" /\ result.status = "error" /\ result.fault = ParseFault
    /\ result.data = ObjA1
    /\ file = FileOf(<<"[", "{", Q, "a", Q, ":", "1", "}", ",">>)

\* C28: a call with overwrite does not read the file and does not fail over
\* its content (only over a fault of mkdir or of the write); when it succeeds
\* the root is an array. An append onto text that does not parse fails and
\* leaves that text, so that the next append finds it again.
C28_OverwriteRecoversAppendDoesNot ==
    /\ (result.op = "write" /\ result.overwrite)
       => /\ ~result.didRead
          /\ \/ result.status = "ok" /\ RootIsArray(file)
             \/ /\ result.status = "error"
                /\ result.fault \in {MkdirFault(DirName(FilePath)), WriteFault(FilePath)}
    /\ (result.op = "write" /\ ~result.overwrite /\ Unparseable(result.before))
       => /\ result.status = "error"
          /\ result.fault \in {ParseFault, ReadFault(FilePath)}
          /\ file = result.before

\* C28 witness: an overwrite of text that is not JSON has succeeded.
C28_Witness ==
    /\ result.op = "write" /\ result.overwrite /\ result.status = "ok"
    /\ Unparseable(result.before)
    /\ RootIsArray(file)

=============================================================================
